---- MODULE Spec2Model ----
(***************************************************************************)
(* Model of the Anthropic adapter of adk-go: the request translator        *)
(* (internal/anthropicllm/converters/request.go), the response translator  *)
(* (converters/response.go) and the model front end with its streaming     *)
(* loop (model/anthropic/anthropic.go).                                    *)
(*                                                                         *)
(* Strings the code inspects character by character (roles, MIME types)    *)
(* are sequences of one-character strings, so that strings.ToLower and     *)
(* strings.HasPrefix are computed and not assumed.  Texts and ids the code *)
(* only copies or concatenates are TLA+ strings.                           *)
(***************************************************************************)
EXTENDS Integers, Sequences, FiniteSets, TLC

VARIABLES
    contents,   \* req.Contents: the turns of the request, in order
    pc,         \* position of the caller / of GenerateContent's iterator
    messages,   \* the wire message list built by ContentsToMessages
    err,        \* the error returned by the conversion ("nil" when none)
    stream,     \* the stream argument of GenerateContent
    events,     \* the events stream.Next() has delivered so far, in order
    streamErr,  \* what stream.Err() reports once Next() has returned false
    message,    \* the running accumulation (anthropic.Message) of the loop
    yielded,    \* the values passed to yield so far, in order
    stopped,    \* TRUE once a yield returned false (the consumer declined)
    calls,      \* number of exchanges started with the provider client
    source,     \* the event source of the run: none, open, or drained
                \* (Next() returned false); the code never closes it
    env,        \* the environment variables the package reads
    cfg,        \* the *Config handed to NewModel
    anthropicModel, \* the model NewModel returned (its variant and its
                \* defaultMaxTokens), nil before and when it failed
    reqConfig,  \* req.Config, the generation config of the request
    params      \* the anthropic.MessageNewParams convertRequest built,
                \* apart from its Messages

vars == <<contents, pc, messages, err, stream, events, streamErr, message,
          yielded, stopped, calls, source, env, cfg, anthropicModel, reqConfig,
          params>>

----------------------------------------------------------------------------
(* Bounds of the model.                                                    *)

MaxTurns == 3
MaxParts == 2
MaxEvents == 7
MaxRuns == 2

----------------------------------------------------------------------------
(* Character strings.                                                      *)

user == <<"u", "s", "e", "r">>
model == <<"m", "o", "d", "e", "l">>
assistant == <<"a", "s", "s", "i", "s", "t", "a", "n", "t">>

\* unicode.ToLower on the letters; every other character is left alone.
LowerChar(c) ==
    CASE c = "A" -> "a" [] c = "B" -> "b" [] c = "C" -> "c" [] c = "D" -> "d"
      [] c = "E" -> "e" [] c = "F" -> "f" [] c = "G" -> "g" [] c = "H" -> "h"
      [] c = "I" -> "i" [] c = "J" -> "j" [] c = "K" -> "k" [] c = "L" -> "l"
      [] c = "M" -> "m" [] c = "N" -> "n" [] c = "O" -> "o" [] c = "P" -> "p"
      [] c = "Q" -> "q" [] c = "R" -> "r" [] c = "S" -> "s" [] c = "T" -> "t"
      [] c = "U" -> "u" [] c = "V" -> "v" [] c = "W" -> "w" [] c = "X" -> "x"
      [] c = "Y" -> "y" [] c = "Z" -> "z" [] OTHER -> c

\* strings.ToLower
ToLower(s) == [i \in 1..Len(s) |-> LowerChar(s[i])]

\* strings.HasPrefix
HasPrefix(s, p) == Len(s) >= Len(p) /\ SubSeq(s, 1, Len(p)) = p

----------------------------------------------------------------------------
(* genai.Part, genai.Content and the wire types.                           *)

\* A *genai.Part.  isNil is the nil pointer.  InlineData and FileData hold
\* the MIME type, FunctionResponse and FunctionCall their id and name; the
\* matching has... field is the pointer being non-nil.  Args is the JSON text
\* of the argument map of a FunctionCall, "nil" for the nil map.
ZeroPart ==
    [isNil |-> FALSE, Text |-> "", Thought |-> FALSE, ThoughtSignature |-> <<>>,
     hasInlineData |-> FALSE, hasFileData |-> FALSE, MIMEType |-> <<>>,
     hasFunctionResponse |-> FALSE, hasFunctionCall |-> FALSE,
     ID |-> "", Name |-> "", Args |-> "nil", marshalFails |-> FALSE,
     hasExecutableCode |-> FALSE, hasCodeExecutionResult |-> FALSE]

NilPart == [ZeroPart EXCEPT !.isNil = TRUE]

TextPart(t) == [ZeroPart EXCEPT !.Text = t]

FunctionCallPart(id, name) ==
    [ZeroPart EXCEPT !.hasFunctionCall = TRUE, !.ID = id, !.Name = name,
                     !.Args = "{}"]

FunctionResponsePart(id, name) ==
    [ZeroPart EXCEPT !.hasFunctionResponse = TRUE, !.ID = id, !.Name = name]

InlineDataPart(mimeType) ==
    [ZeroPart EXCEPT !.hasInlineData = TRUE, !.MIMEType = mimeType]

FileDataPart(mimeType) ==
    [ZeroPart EXCEPT !.hasFileData = TRUE, !.MIMEType = mimeType]

ExecutableCodePart == [ZeroPart EXCEPT !.hasExecutableCode = TRUE]

\* A *genai.Content.
NilContent == [isNil |-> TRUE, Role |-> <<>>, Parts |-> <<>>]

Content(role, parts) == [isNil |-> FALSE, Role |-> role, Parts |-> parts]

\* genai.NewContentFromText
NewContentFromText(text, role) == Content(role, <<TextPart(text)>>)

\* An anthropic.ContentBlockParamUnion.
ZeroBlock ==
    [type |-> "", text |-> "", signature |-> <<>>, id |-> "", name |-> "",
     input |-> "", source |-> "", mediaType |-> <<>>]

NewTextBlock(t) == [ZeroBlock EXCEPT !.type = "text", !.text = t]

NewToolResultBlock(toolUseID) ==
    [ZeroBlock EXCEPT !.type = "tool_result", !.id = toolUseID]

NewToolUseBlock(id, input, name) ==
    [ZeroBlock EXCEPT !.type = "tool_use", !.id = id, !.input = input, !.name = name]

\* The result of a conversion that returns (*T, error): err is "nil" when
\* there is no error, isNil tells a nil pointer, val is what it points to.
Ok(v) == [err |-> "nil", isNil |-> FALSE, val |-> v]
Nothing(zero) == [err |-> "nil", isNil |-> TRUE, val |-> zero]
Fail(e, zero) == [err |-> e, isNil |-> TRUE, val |-> zero]

----------------------------------------------------------------------------
(* Request translator: converters/request.go.                              *)

\* base64.StdEncoding.EncodeToString on a sequence of bytes (0..255).  The
\* result is the sequence of alphabet indices 0..63, with 64 for the "="
\* padding character.
RECURSIVE Base64Encode(_)
Base64Encode(b) ==
    IF Len(b) = 0 THEN <<>>
    ELSE IF Len(b) = 1 THEN
        <<b[1] \div 4, (b[1] % 4) * 16, 64, 64>>
    ELSE IF Len(b) = 2 THEN
        <<b[1] \div 4, (b[1] % 4) * 16 + b[2] \div 16, (b[2] % 16) * 4, 64>>
    ELSE
        <<b[1] \div 4, (b[1] % 4) * 16 + b[2] \div 16,
          (b[2] % 16) * 4 + b[3] \div 64, b[3] % 64>>
        \o Base64Encode(SubSeq(b, 4, Len(b)))

\* The switch of mapRole on the lower-cased role.
mapLowerRole(r) ==
    IF r = user THEN [err |-> "nil", role |-> "user"]
    ELSE IF r = model \/ r = assistant THEN [err |-> "nil", role |-> "assistant"]
    ELSE [err |-> "unsupported role", role |-> ""]

\* mapRole: the wire role of a declared role, or an error.
mapRole(role) == mapLowerRole(ToLower(role))

\* mapImageMediaType
mapImageMediaType(mimeType) ==
    IF mimeType \in {<<"i","m","a","g","e","/","j","p","e","g">>,
                     <<"i","m","a","g","e","/","p","n","g">>,
                     <<"i","m","a","g","e","/","g","i","f">>,
                     <<"i","m","a","g","e","/","w","e","b","p">>}
    THEN [err |-> "nil", mediaType |-> mimeType]
    ELSE [err |-> "unsupported image media type", mediaType |-> <<>>]

imagePrefix == <<"i","m","a","g","e","/">>
applicationPdf == <<"a","p","p","l","i","c","a","t","i","o","n","/","p","d","f">>

\* The image branch of inlineDataToBlock, m being what mapImageMediaType
\* returned.
inlineImageBlock(m) ==
    IF m.err # "nil" THEN Fail(m.err, ZeroBlock)
    ELSE Ok([ZeroBlock EXCEPT !.type = "image", !.source = "base64",
                              !.mediaType = m.mediaType])

\* inlineLowerToBlock taking every image/ subtype.
inlineLowerAnyImage(mimeType) ==
    IF HasPrefix(mimeType, imagePrefix) THEN
        Ok([ZeroBlock EXCEPT !.type = "image", !.source = "base64",
                             !.mediaType = mimeType])
    ELSE IF mimeType = applicationPdf THEN
        Ok([ZeroBlock EXCEPT !.type = "document", !.source = "base64"])
    ELSE Fail("unsupported MIME type for inline data", ZeroBlock)

\* The branches of inlineDataToBlock on the lower-cased MIME type.
inlineLowerToBlock(mimeType) ==
    IF HasPrefix(mimeType, imagePrefix) THEN inlineImageBlock(mapImageMediaType(mimeType))
    ELSE IF mimeType = applicationPdf THEN
        Ok([ZeroBlock EXCEPT !.type = "document", !.source = "base64"])
    ELSE Fail("unsupported MIME type for inline data", ZeroBlock)

\* inlineDataToBlock, called with part.InlineData non-nil.
inlineDataToBlock(part) == inlineLowerToBlock(ToLower(part.MIMEType))

\* The branches of fileDataToBlock on the lower-cased MIME type.
fileLowerToBlock(mimeType) ==
    IF HasPrefix(mimeType, imagePrefix) THEN
        Ok([ZeroBlock EXCEPT !.type = "image", !.source = "url"])
    ELSE IF mimeType = applicationPdf THEN
        Ok([ZeroBlock EXCEPT !.type = "document", !.source = "url"])
    ELSE Fail("unsupported MIME type for file data", ZeroBlock)

\* fileDataToBlock, called with part.FileData non-nil.
fileDataToBlock(part) == fileLowerToBlock(ToLower(part.MIMEType))

\* functionResponseToBlock without the fallback to the name.
functionResponseToBlockByID(part) ==
    IF part.marshalFails THEN Fail("failed to marshal function response", ZeroBlock)
    ELSE Ok(NewToolResultBlock(part.ID))

\* functionResponseToBlock correlating by the function's name only.
functionResponseToBlockByName(part) ==
    IF part.marshalFails THEN Fail("failed to marshal function response", ZeroBlock)
    ELSE Ok(NewToolResultBlock(part.Name))

\* functionResponseToBlock, called with part.FunctionResponse non-nil: the
\* tool-use reference is the response's ID, or its Name when the ID is empty.
functionResponseToBlock(part) ==
    IF part.marshalFails THEN Fail("failed to marshal function response", ZeroBlock)
    ELSE LET toolUseID == IF part.ID = "" THEN part.Name ELSE part.ID
         IN Ok(NewToolResultBlock(toolUseID))

\* functionCallToBlock, called with part.FunctionCall non-nil.  The code
\* stores call.Args, a map[string]any, in a variable of type any and tests
\* that variable against nil: an interface holding a map is never nil, not
\* even when the map is, so the test fails for every call and the input is
\* the argument map as it is (the nil map when Args is nil).
functionCallToBlock(part) ==
    LET inputIsNilInterface == FALSE
        input == IF inputIsNilInterface THEN "{}" ELSE part.Args
    IN  Ok(NewToolUseBlock(part.ID, input, part.Name))

\* PartToContentBlock: the fields of the part are tried in the code's order.
PartToContentBlock(part) ==
    IF part.isNil THEN Nothing(ZeroBlock)
    ELSE IF part.Text # "" THEN
        IF part.Thought /\ Len(part.ThoughtSignature) > 0
        THEN Ok([ZeroBlock EXCEPT !.type = "thinking", !.text = part.Text,
                     !.signature = Base64Encode(part.ThoughtSignature)])
        ELSE Ok(NewTextBlock(part.Text))
    ELSE IF part.hasInlineData THEN inlineDataToBlock(part)
    ELSE IF part.hasFileData THEN fileDataToBlock(part)
    ELSE IF part.hasFunctionResponse THEN functionResponseToBlock(part)
    ELSE IF part.hasFunctionCall THEN functionCallToBlock(part)
    ELSE IF part.hasExecutableCode \/ part.hasCodeExecutionResult
        THEN Fail("ExecutableCode and CodeExecutionResult are not supported", ZeroBlock)
    ELSE Nothing(ZeroBlock)

ZeroMessage == [Role |-> "", Content |-> <<>>]

\* The second loop of contentToMessage: the blocks of parts i.., appended to
\* blocks, or the first conversion error.  convertPart is one turn of the
\* loop, r being what PartToContentBlock returned for parts[i].
RECURSIVE convertParts(_, _, _)
convertPart(parts, i, blocks, r) ==
    IF r.err # "nil" THEN [err |-> r.err, blocks |-> <<>>]
    ELSE IF r.isNil THEN convertParts(parts, i + 1, blocks)
    ELSE convertParts(parts, i + 1, Append(blocks, r.val))

convertParts(parts, i, blocks) ==
    IF i > Len(parts) THEN [err |-> "nil", blocks |-> blocks]
    ELSE convertPart(parts, i, blocks, PartToContentBlock(parts[i]))

\* contentRole without the function-response override.
contentRoleNoResponseForce(content) ==
    LET hasFunctionCall ==
            \E i \in 1..Len(content.Parts) :
                ~content.Parts[i].isNil /\ content.Parts[i].hasFunctionCall
    IN  IF hasFunctionCall THEN [err |-> "nil", role |-> "assistant"]
        ELSE mapRole(content.Role)

\* contentRole without the function-call override.
contentRoleNoCallForce(content) ==
    LET hasFunctionResponse ==
            \E i \in 1..Len(content.Parts) :
                ~content.Parts[i].isNil /\ content.Parts[i].hasFunctionResponse
    IN  IF hasFunctionResponse THEN [err |-> "nil", role |-> "user"]
        ELSE mapRole(content.Role)

\* The role contentToMessage gives a non-nil turn: forced by function parts,
\* else mapped from the declared role.
contentRole(content) ==
    LET hasFunctionResponse ==
            \E i \in 1..Len(content.Parts) :
                ~content.Parts[i].isNil /\ content.Parts[i].hasFunctionResponse
        hasFunctionCall ==
            \E i \in 1..Len(content.Parts) :
                ~content.Parts[i].isNil /\ content.Parts[i].hasFunctionCall
    IN  IF hasFunctionResponse THEN [err |-> "nil", role |-> "user"]
        ELSE IF hasFunctionCall THEN [err |-> "nil", role |-> "assistant"]
        ELSE mapRole(content.Role)

\* The end of contentToMessage making a message of no blocks too.
messageOfKeepingEmpty(role, b) ==
    IF b.err # "nil" THEN Fail(b.err, ZeroMessage)
    ELSE Ok([Role |-> role, Content |-> b.blocks])

\* The end of contentToMessage: the message of role and the blocks b that
\* convertParts returned, nil when there are none.
messageOf(role, b) ==
    IF b.err # "nil" THEN Fail(b.err, ZeroMessage)
    ELSE IF Len(b.blocks) = 0 THEN Nothing(ZeroMessage)
    ELSE Ok([Role |-> role, Content |-> b.blocks])

\* contentToMessage from the role on, r being what contentRole returned.
contentWithRole(content, r) ==
    IF r.err # "nil" THEN Fail(r.err, ZeroMessage)
    ELSE messageOf(r.role, convertParts(content.Parts, 1, <<>>))

\* contentToMessage
contentToMessage(content) ==
    IF content.isNil \/ Len(content.Parts) = 0 THEN Nothing(ZeroMessage)
    ELSE contentWithRole(content, contentRole(content))

\* The loop of mergeConsecutiveMessages from index i on, merged being the
\* list built so far.
RECURSIVE mergeFrom(_, _, _)
mergeFrom(msgs, i, merged) ==
    IF i > Len(msgs) THEN merged
    ELSE IF i = 1 THEN mergeFrom(msgs, 2, Append(merged, msgs[1]))
    ELSE LET n == Len(merged) IN
         IF merged[n].Role = msgs[i].Role
         THEN mergeFrom(msgs, i + 1,
                  [merged EXCEPT ![n].Content = merged[n].Content \o msgs[i].Content])
         ELSE mergeFrom(msgs, i + 1, Append(merged, msgs[i]))

\* mergeConsecutiveMessages returning its argument unmerged.
mergeNothing(msgs) == msgs

\* mergeConsecutiveMessages keeping only the last message of each run.
RECURSIVE mergeKeepLast(_)
mergeKeepLast(msgs) ==
    IF Len(msgs) <= 1 THEN msgs
    ELSE LET rest == mergeKeepLast(SubSeq(msgs, 1, Len(msgs) - 1))
             m == msgs[Len(msgs)]
         IN  IF rest[Len(rest)].Role = m.Role
             THEN [rest EXCEPT ![Len(rest)] = m]
             ELSE Append(rest, m)

\* mergeConsecutiveMessages
mergeConsecutiveMessages(msgs) ==
    IF Len(msgs) <= 1 THEN msgs ELSE mergeFrom(msgs, 1, <<>>)

\* One turn of the loop of ContentsToMessages passing over a turn that
\* failed to convert.
RECURSIVE convertContents(_, _, _)
convertContentSkippingFailed(cs, i, msgs, r) ==
    IF r.err # "nil" \/ r.isNil THEN convertContents(cs, i + 1, msgs)
    ELSE convertContents(cs, i + 1, Append(msgs, r.val))

\* The loop of ContentsToMessages over the turns i.., msgs being the
\* messages collected so far.  convertContent is one turn of the loop, r
\* being what contentToMessage returned for cs[i].
convertContent(cs, i, msgs, r) ==
    IF r.err # "nil" THEN [err |-> r.err, messages |-> <<>>]
    ELSE IF r.isNil THEN convertContents(cs, i + 1, msgs)
    ELSE convertContents(cs, i + 1, Append(msgs, r.val))

convertContents(cs, i, msgs) ==
    IF i > Len(cs) THEN [err |-> "nil", messages |-> msgs]
    ELSE IF cs[i].isNil THEN convertContents(cs, i + 1, msgs)
    ELSE convertContent(cs, i, msgs, contentToMessage(cs[i]))

\* The end of ContentsToMessages, r being what the loop returned.
mergedResult(r) ==
    IF r.err # "nil" THEN r
    ELSE [err |-> "nil", messages |-> mergeConsecutiveMessages(r.messages)]

\* ContentsToMessages: (messages, error); a nil list is the empty sequence.
ContentsToMessages(cs) ==
    IF Len(cs) = 0 THEN [err |-> "nil", messages |-> <<>>]
    ELSE mergedResult(convertContents(cs, 1, <<>>))

----------------------------------------------------------------------------
(* Response translator: converters/response.go.                            *)

\* base64.StdEncoding.DecodeString on a sequence of symbols: 0..63 are the
\* alphabet, 64 is "=", anything else is a character outside the alphabet.
\* The code drops the error, so this is the byte slice alone: on corrupt
\* input, the bytes decoded before the error.  i is the next symbol to read.
RECURSIVE base64DecodeFrom(_, _, _)
base64DecodeFrom(s, i, out) ==
    LET n == Len(s)
        valid(k) == k <= n /\ s[k] \in 0..63
        pad(k) == k <= n /\ s[k] = 64
        byte1 == s[i] * 4 + s[i + 1] \div 16
        byte2 == (s[i + 1] % 16) * 16 + s[i + 2] \div 4
        byte3 == (s[i + 2] % 4) * 64 + s[i + 3]
    IN  IF i > n THEN out
        ELSE IF valid(i) /\ valid(i + 1) /\ valid(i + 2) /\ valid(i + 3)
            THEN base64DecodeFrom(s, i + 4, out \o <<byte1, byte2, byte3>>)
        ELSE IF valid(i) /\ valid(i + 1) /\ valid(i + 2) /\ pad(i + 3)
            THEN out \o <<byte1, byte2>>
        ELSE IF valid(i) /\ valid(i + 1) /\ pad(i + 2) /\ pad(i + 3)
            THEN out \o <<byte1>>
        ELSE out

Base64Decode(s) == base64DecodeFrom(s, 1, <<>>)

\* An anthropic.ContentBlockUnion of a received message.
ZeroContentBlock ==
    [Type |-> "", Text |-> "", Thinking |-> "", Signature |-> <<>>,
     ID |-> "", Name |-> "", Input |-> ""]

\* An anthropic.Message: what the provider returns, and what the streaming
\* loop accumulates.
ZeroAnthropicMessage ==
    [Content |-> <<>>, StopReason |-> "",
     InputTokens |-> <<0, 0, 0, 0>>, OutputTokens |-> <<0, 0, 0, 0>>]

\* A *model.LLMResponse.  Parts are the parts of Content (role "model").
NilResponse ==
    [isNil |-> TRUE, hasContent |-> FALSE, Parts |-> <<>>, Partial |-> FALSE,
     TurnComplete |-> FALSE, FinishReason |-> "", PromptTokenCount |-> <<0, 0>>,
     CandidatesTokenCount |-> <<0, 0>>, TotalTokenCount |-> <<0, 0>>,
     ErrorCode |-> ""]

\* The JSON texts of the model that json.Unmarshal decodes into a map.
IsJSONObject(input) == input \in {"{}", "{\"k\":1}"}

\* args taken from block.Input whatever it holds.
argsOfUndecoded(block) == block.Input

\* args after the decoding of block.Input: the map of a JSON object; the
\* empty map made before when the decoding fails, when a tool_use block has
\* no input ("") and when a server_tool_use block has a nil one ("" and
\* "null"); the nil map json.Unmarshal leaves for the null of a tool_use
\* block.
argsOf(block) ==
    IF IsJSONObject(block.Input) THEN block.Input
    ELSE IF block.Type = "tool_use" /\ block.Input = "null" THEN "nil"
    ELSE "{}"

\* ContentBlockToGenaiPart, for the block types the model has: a nil part
\* for a block of unknown type.
ContentBlockToGenaiPart(block) ==
    IF block.Type = "text" THEN TextPart(block.Text)
    ELSE IF block.Type = "thinking" THEN
        [ZeroPart EXCEPT !.Text = block.Thinking, !.Thought = TRUE,
                         !.ThoughtSignature = Base64Decode(block.Signature)]
    ELSE IF block.Type = "redacted_thinking" THEN
        [ZeroPart EXCEPT !.Text = "[thinking redacted]", !.Thought = TRUE]
    ELSE IF block.Type \in {"tool_use", "server_tool_use"} THEN
        [ZeroPart EXCEPT !.hasFunctionCall = TRUE, !.ID = block.ID,
                         !.Name = block.Name,
                         !.Args = argsOf(block)]
    ELSE NilPart

\* Integers of the code are kept in two's complement as sequences of 16-bit
\* limbs, the least significant first: four limbs for an int64, two for an
\* int32.  Int64Of is the int64 of a natural number below 65536.
Int64Of(n) == <<n, 0, 0, 0>>

\* The conversion int32(x) of an int64: the low 32 bits.
Int32(x) == <<x[1], x[2]>>

\* The sum x + y of two int64, wrapping around.
Add64(x, y) ==
    LET s1 == x[1] + y[1]
        s2 == x[2] + y[2] + s1 \div 65536
        s3 == x[3] + y[3] + s2 \div 65536
        s4 == x[4] + y[4] + s3 \div 65536
    IN  <<s1 % 65536, s2 % 65536, s3 % 65536, s4 % 65536>>

\* StopReasonToFinishReason with Stop as the default.
StopReasonDefaultStop(sr) ==
    IF sr = "max_tokens" THEN "MAX_TOKENS" ELSE "STOP"

\* StopReasonToFinishReason
StopReasonToFinishReason(sr) ==
    IF sr = "end_turn" THEN "STOP"
    ELSE IF sr = "max_tokens" THEN "MAX_TOKENS"
    ELSE IF sr = "stop_sequence" THEN "STOP"
    ELSE IF sr = "tool_use" THEN "STOP"
    ELSE "FINISH_REASON_UNSPECIFIED"

\* The loop of MessageToLLMResponse: the parts of the blocks i.. that
\* convert to a part, in block order.  keepPart is one turn of the loop,
\* part being what ContentBlockToGenaiPart returned for blocks[i].
RECURSIVE blocksToParts(_, _)
keepPart(blocks, i, part) ==
    IF part.isNil THEN blocksToParts(blocks, i + 1)
    ELSE <<part>> \o blocksToParts(blocks, i + 1)

blocksToParts(blocks, i) ==
    IF i > Len(blocks) THEN <<>>
    ELSE keepPart(blocks, i, ContentBlockToGenaiPart(blocks[i]))

\* MessageToLLMResponse on a non-nil message (citations are not modelled).
MessageToLLMResponse(msg) ==
    [NilResponse EXCEPT
        !.isNil = FALSE, !.hasContent = TRUE,
        !.Parts = blocksToParts(msg.Content, 1),
        !.PromptTokenCount = Int32(msg.InputTokens),
        !.CandidatesTokenCount = Int32(msg.OutputTokens),
        !.TotalTokenCount = Int32(Add64(msg.InputTokens, msg.OutputTokens)),
        !.FinishReason = StopReasonToFinishReason(msg.StopReason)]

\* StreamDeltaToPartialResponse flagging the response complete too.
StreamDeltaToCompleteResponse(text) ==
    [NilResponse EXCEPT !.isNil = FALSE, !.hasContent = TRUE,
                        !.Parts = <<TextPart(text)>>, !.Partial = TRUE,
                        !.TurnComplete = TRUE]

\* StreamDeltaToPartialResponse
StreamDeltaToPartialResponse(text) ==
    [NilResponse EXCEPT !.isNil = FALSE, !.hasContent = TRUE,
                        !.Parts = <<TextPart(text)>>, !.Partial = TRUE]

\* StreamThinkingDeltaToPartialResponse
StreamThinkingDeltaToPartialResponse(thinking) ==
    [NilResponse EXCEPT !.isNil = FALSE, !.hasContent = TRUE,
                        !.Parts = <<[ZeroPart EXCEPT !.Text = thinking, !.Thought = TRUE]>>,
                        !.Partial = TRUE]

----------------------------------------------------------------------------
(* Tool schema translator: converters/tools.go.                            *)

\* A Go map with string keys: nil, or the function m from its keys to its
\* values.
NilMap == [isNil |-> TRUE, m |-> <<>>]
Map(f) == [isNil |-> FALSE, m |-> f]
EmptyMap == Map(<<>>)

\* A []string: nil, or its elements.
NilList == [isNil |-> TRUE, val |-> <<>>]
List(q) == [isNil |-> FALSE, val |-> q]

\* A *genai.Schema of a property, with its Type; the other fields are
\* unset.
NilSchema == [isNil |-> TRUE, Type |-> <<>>]
Schema(type) == [isNil |-> FALSE, Type |-> type]

\* schemaToMap for a schema that sets no field but Type: the type, in
\* lower case, when there is one.
schemaToMap(schema) ==
    IF schema.isNil THEN NilMap
    ELSE Map([k \in (IF schema.Type # <<>> THEN {"type"} ELSE {}) |->
                  ToLower(schema.Type)])

\* schemaPropertiesToMap: nil for nil properties; nil schemas are skipped.
schemaPropertiesToMap(props) ==
    IF props.isNil THEN NilMap
    ELSE Map([n \in {x \in DOMAIN props.m : ~props.m[x].isNil} |->
                  schemaToMap(props.m[n])])

\* jsonSchemaPropertyToMap for a schema that sets no field but Type.
jsonSchemaPropertyToMap(schema) ==
    IF schema.isNil THEN NilMap
    ELSE Map([k \in (IF schema.Type # <<>> THEN {"type"} ELSE {}) |-> schema.Type])

\* jsonSchemaToProperties for a non-nil schema: nil for nil Properties;
\* a nil property schema stays in the map, with a nil value.
jsonSchemaToProperties(schema) ==
    IF schema.Properties.isNil THEN NilMap
    ELSE Map([n \in DOMAIN schema.Properties.m |->
                  jsonSchemaPropertyToMap(schema.Properties.m[n])])

\* The strings among the elements of a []any, in order.
RECURSIVE stringsOf(_)
stringsOf(q) ==
    IF Len(q) = 0 THEN <<>>
    ELSE (IF q[1].isString THEN <<q[1].s>> ELSE <<>>) \o stringsOf(Tail(q))

\* extractRequiredFields that knows only the []string form.
extractRequiredStringsOnly(v) ==
    IF v.kind = "strings" THEN v.strs ELSE NilList

\* extractRequiredFields: v is the value under "required", of kind "nil"
\* (no value), "strings" (a []string, nil or not, in strs: returned as it
\* is), "anys" (a []any, in anys: its strings, in a new slice) or "other".
extractRequiredFields(v) ==
    IF v.kind = "strings" THEN v.strs
    ELSE IF v.kind = "anys" THEN List(stringsOf(v.anys))
    ELSE NilList

\* The input schema FunctionDeclarationToTool starts from.
ZeroInputSchema == [Properties |-> EmptyMap, Required |-> NilList]

\* The branch of FunctionDeclarationToTool for Parameters, props being
\* what schemaPropertiesToMap returned.
fromParameters(parameters, props) ==
    [Properties |-> IF ~props.isNil THEN props ELSE EmptyMap,
     Required |-> IF Len(parameters.Required) > 0
                  THEN List(parameters.Required) ELSE NilList]

\* The branch for a ParametersJsonSchema of type map[string]any.
fromJsonMap(schema) ==
    [Properties |-> IF schema.properties.isMap THEN schema.properties.val
                    ELSE EmptyMap,
     Required |-> extractRequiredFields(schema.required)]

\* The branch for a ParametersJsonSchema of type *jsonschema.Schema, props
\* being what jsonSchemaToProperties returned.
fromJsonSchema(schema, props) ==
    [Properties |-> IF ~props.isNil THEN props ELSE EmptyMap,
     Required |-> IF Len(schema.Required) > 0
                  THEN List(schema.Required) ELSE NilList]

\* FunctionDeclarationToTool taking the raw schema before the structured
\* one.
inputSchemaRawFirst(fd) ==
    IF fd.ParametersJsonSchema.kind = "map" THEN fromJsonMap(fd.ParametersJsonSchema)
    ELSE IF fd.ParametersJsonSchema.kind = "schema"
    THEN fromJsonSchema(fd.ParametersJsonSchema,
                        jsonSchemaToProperties(fd.ParametersJsonSchema))
    ELSE IF ~fd.Parameters.isNil
    THEN fromParameters(fd.Parameters, schemaPropertiesToMap(fd.Parameters.Properties))
    ELSE ZeroInputSchema

\* The inputSchema of FunctionDeclarationToTool: Parameters when there
\* are, else ParametersJsonSchema by its dynamic type.
inputSchemaOf(fd) ==
    IF ~fd.Parameters.isNil
    THEN fromParameters(fd.Parameters, schemaPropertiesToMap(fd.Parameters.Properties))
    ELSE IF fd.ParametersJsonSchema.kind = "map" THEN fromJsonMap(fd.ParametersJsonSchema)
    ELSE IF fd.ParametersJsonSchema.kind = "schema"
    THEN fromJsonSchema(fd.ParametersJsonSchema,
                        jsonSchemaToProperties(fd.ParametersJsonSchema))
    ELSE ZeroInputSchema

\* FunctionDeclarationToTool
FunctionDeclarationToTool(fd) == [Name |-> fd.Name, InputSchema |-> inputSchemaOf(fd)]

\* The tools of the declarations fds[i..], nil declarations skipped.
RECURSIVE declarationsToTools(_, _)
declarationsToTools(fds, i) ==
    IF i > Len(fds) THEN <<>>
    ELSE (IF fds[i].isNil THEN <<>> ELSE <<FunctionDeclarationToTool(fds[i])>>)
         \o declarationsToTools(fds, i + 1)

\* ToolsToAnthropicTools: the tools of every declaration of every non-nil
\* tool, in order; nil is the empty sequence.
RECURSIVE ToolsToAnthropicTools(_)
ToolsToAnthropicTools(tools) ==
    IF Len(tools) = 0 THEN <<>>
    ELSE (IF tools[1].isNil \/ Len(tools[1].FunctionDeclarations) = 0 THEN <<>>
          ELSE declarationsToTools(tools[1].FunctionDeclarations, 1))
         \o ToolsToAnthropicTools(Tail(tools))

----------------------------------------------------------------------------
(* Model front end: model/anthropic/anthropic.go.                          *)

\* maybeAppendUserContent: the request's turns after the call.
maybeAppendUserContent(cs) ==
    IF Len(cs) = 0
    THEN Append(cs, NewContentFromText("Handle the requests as specified in the System Instruction.", user))
    ELSE LET last == cs[Len(cs)] IN
         IF ~last.isNil /\ last.Role # user
         THEN Append(cs, NewContentFromText("Continue processing previous requests as instructed.", user))
         ELSE cs

\* The error wrapping of convertRequest, r being what ContentsToMessages
\* returned.
wrapConvertError(r) ==
    IF r.err # "nil" THEN [err |-> "failed to convert contents", messages |-> <<>>]
    ELSE [err |-> "nil", messages |-> r.messages]

\* The default of maxTokens when the Config gives none.
defaultMaxTokens == 4096

\* A *Config as NewModel reads it (the client settings are left out).
\* the fields of Config that NewModel reads itself.
NilConfig ==
    [isNil |-> TRUE, DefaultMaxTokens |-> 0, Variant |-> "", VertexProjectID |-> "",
     VertexRegion |-> ""]

Config(d) == [NilConfig EXCEPT !.isNil = FALSE, !.DefaultMaxTokens = d]

\* The environment: the values of the three variables the package reads,
\* the first as a sequence of characters; unset is empty.
NoEnv ==
    [ANTHROPIC_USE_VERTEX |-> <<>>, GOOGLE_CLOUD_PROJECT |-> "",
     GOOGLE_CLOUD_REGION |-> ""]

VariantAnthropicAPI == "ANTHROPIC_API"
VariantVertexAI == "VERTEX_AI"

\* unicode.IsSpace on the characters of the model.
IsSpace(c) == c \in {" ", "\t", "\n", "\r"}

\* strings.TrimSpace
RECURSIVE TrimLeft(_)
TrimLeft(s) == IF Len(s) > 0 /\ IsSpace(s[1]) THEN TrimLeft(Tail(s)) ELSE s

RECURSIVE TrimRight(_)
TrimRight(s) ==
    IF Len(s) > 0 /\ IsSpace(s[Len(s)]) THEN TrimRight(SubSeq(s, 1, Len(s) - 1)) ELSE s

TrimSpace(s) == TrimRight(TrimLeft(s))

\* strconv.ParseBool, its error dropped: true for the six spellings it
\* takes for true, false for every other string.
ParseBool(str) ==
    str \in {<<"1">>, <<"t">>, <<"T">>, <<"T", "R", "U", "E">>, <<"t", "r", "u", "e">>,
             <<"T", "r", "u", "e">>}

\* GetVariant, on the value of ANTHROPIC_USE_VERTEX.
GetVariant(value) ==
    IF ParseBool(TrimSpace(value)) THEN VariantVertexAI ELSE VariantAnthropicAPI

\* The variant of NewModel, c being the Config after the nil check.
variantOf(c, e) ==
    IF c.Variant = "" THEN GetVariant(e.ANTHROPIC_USE_VERTEX) ELSE c.Variant

\* The projectID and the region of NewModel for Vertex AI.
projectIDOf(c, e) ==
    IF c.VertexProjectID = "" THEN e.GOOGLE_CLOUD_PROJECT ELSE c.VertexProjectID

regionOf(c, e) == IF c.VertexRegion = "" THEN e.GOOGLE_CLOUD_REGION ELSE c.VertexRegion

\* No model.
NilModel == [isNil |-> TRUE, err |-> "nil", variant |-> "", defaultMaxTokens |-> 0]

\* maxTokensOf without the default.
maxTokensOfNoDefault(c) == c.DefaultMaxTokens

\* The maxTokens of NewModel, c being the Config after the nil check.
maxTokensOf(c) ==
    IF c.DefaultMaxTokens = 0 THEN defaultMaxTokens ELSE c.DefaultMaxTokens

\* newModel is NewModel after the nil check, variant being what it
\* settled on: no model and an error for Vertex AI without project or
\* region, else the model with its variant and its defaultMaxTokens.
newModel(c, e, variant) ==
    IF variant = VariantVertexAI /\ projectIDOf(c, e) = ""
    THEN [NilModel EXCEPT !.err = "VertexProjectID is required"]
    ELSE IF variant = VariantVertexAI /\ regionOf(c, e) = ""
    THEN [NilModel EXCEPT !.err = "VertexRegion is required"]
    ELSE [isNil |-> FALSE, err |-> "nil", variant |-> variant,
          defaultMaxTokens |-> maxTokensOf(c)]

\* NewModel(ctx, modelName, cfg) in the environment e.
NewModel(c, e) ==
    IF c.isNil THEN newModel(Config(0), e, variantOf(Config(0), e))
    ELSE newModel(c, e, variantOf(c, e))

\* req.Config, a *genai.GenerateContentConfig, as convertRequest reads its
\* MaxOutputTokens (an int32) and its Tools.
NilGenerateConfig == [isNil |-> TRUE, MaxOutputTokens |-> 0, Tools |-> <<>>]

GenerateContentConfig(n) == [isNil |-> FALSE, MaxOutputTokens |-> n, Tools |-> <<>>]

\* The params before any request was converted.
ZeroParams == [MaxTokens |-> 0, Tools |-> <<>>]

\* The params of convertRequest, w being the messages or the wrapped error.
paramsOf(mdl, config, w) ==
    IF w.err # "nil"
    THEN [err |-> w.err, messages |-> <<>>, MaxTokens |-> 0, Tools |-> <<>>]
    ELSE [err |-> "nil", messages |-> w.messages,
          MaxTokens |-> IF ~config.isNil /\ config.MaxOutputTokens > 0
                        THEN config.MaxOutputTokens
                        ELSE mdl.defaultMaxTokens,
          Tools |-> IF ~config.isNil /\ Len(config.Tools) > 0
                    THEN ToolsToAnthropicTools(config.Tools)
                    ELSE <<>>]

\* convertRequest: the wire messages and the max-token bound of the
\* request, or the error.
convertRequest(mdl, cs, config) ==
    paramsOf(mdl, config, wrapConvertError(ContentsToMessages(cs)))

\* A value passed to yield: a response and an error.
Yield(resp, e) == [resp |-> resp, err |-> e]

\* A stream event (anthropic.MessageStreamEventUnion).
ZeroEvent == [type |-> "", block |-> "", delta |-> "", text |-> "", stopReason |-> ""]

MessageStart == [ZeroEvent EXCEPT !.type = "message_start"]
ContentBlockStart(b) == [ZeroEvent EXCEPT !.type = "content_block_start", !.block = b]
ContentBlockDelta(d, t) ==
    [ZeroEvent EXCEPT !.type = "content_block_delta", !.delta = d, !.text = t]
ContentBlockStop == [ZeroEvent EXCEPT !.type = "content_block_stop"]
MessageDelta(sr) == [ZeroEvent EXCEPT !.type = "message_delta", !.stopReason = sr]
MessageStop == [ZeroEvent EXCEPT !.type = "message_stop"]

\* message.Accumulate(event) of the provider SDK: the message after the
\* event, or an error.  A delta goes to the last content block and fails
\* when there is none.
Accumulate(acc, event) ==
    IF event.type = "message_start" THEN
        [err |-> "nil", message |-> [ZeroAnthropicMessage EXCEPT !.InputTokens = Int64Of(10)]]
    ELSE IF event.type = "message_delta" THEN
        [err |-> "nil",
         message |-> [acc EXCEPT !.StopReason = event.stopReason,
                                 !.OutputTokens = Int64Of(20)]]
    ELSE IF event.type = "content_block_start" THEN
        [err |-> "nil",
         message |-> [acc EXCEPT !.Content = Append(@,
             [ZeroContentBlock EXCEPT !.Type = event.block,
                  !.ID = IF event.block = "tool_use" THEN "t1" ELSE "",
                  !.Name = IF event.block = "tool_use" THEN "f" ELSE "",
                  !.Input = IF event.block = "tool_use" THEN "{}" ELSE ""])]]
    ELSE IF event.type = "content_block_delta" THEN
        IF Len(acc.Content) = 0
        THEN [err |-> "there was no content block", message |-> acc]
        ELSE LET n == Len(acc.Content) IN
             [err |-> "nil",
              message |->
                 IF event.delta = "text_delta"
                 THEN [acc EXCEPT !.Content[n].Text = @ \o event.text]
                 ELSE IF event.delta = "thinking_delta"
                 THEN [acc EXCEPT !.Content[n].Thinking = @ \o event.text]
                 ELSE IF event.delta = "input_json_delta" /\ event.text # ""
                 THEN [acc EXCEPT !.Content[n].Input =
                           IF @ = "{}" THEN event.text ELSE @ \o event.text]
                 ELSE acc]
    ELSE [err |-> "nil", message |-> acc]

\* afterYield going on whatever the consumer said.
afterYieldIgnored(more) == "open"

\* The pc of generateStream after a yield that returned more: the loop goes
\* on when the consumer wants more and returns when it does not.
afterYield(more) == IF more THEN "open" ELSE "closed"

\* What generateStream yields for an event it has accumulated: the partial
\* response of a text or thinking delta, nothing (the empty sequence) for
\* every other event.
partialOf(event) ==
    IF event.type = "content_block_delta" /\ event.delta = "text_delta"
    THEN <<Yield(StreamDeltaToPartialResponse(event.text), "nil")>>
    ELSE IF event.type = "content_block_delta" /\ event.delta = "thinking_delta"
    THEN <<Yield(StreamThinkingDeltaToPartialResponse(event.text), "nil")>>
    ELSE <<>>

\* finalOf yielding the final response whatever the stream reported.
finalOfIgnoringErr(msg, e) ==
    Yield([MessageToLLMResponse(msg) EXCEPT !.TurnComplete = TRUE], "nil")

\* finalOf leaving the final response unflagged.
finalOfUnflagged(msg, e) ==
    IF e # "nil" THEN Yield(NilResponse, "stream error")
    ELSE Yield(MessageToLLMResponse(msg), "nil")

\* The last value generateStream yields once the stream is exhausted: the
\* stream's error, or the response of the accumulated message, flagged
\* TurnComplete.
finalOf(msg, e) ==
    IF e # "nil" THEN Yield(NilResponse, "stream error")
    ELSE Yield([MessageToLLMResponse(msg) EXCEPT !.TurnComplete = TRUE], "nil")

----------------------------------------------------------------------------
(* The caller builds a request turn by turn and has it translated.         *)

tool == <<"t", "o", "o", "l">>

\* The sequences over S of length at most n.
SeqsUpTo(S, n) == UNION {[1..k -> S] : k \in 0..n}

\* The turns a caller can put into a request: nil, or a role with at most
\* MaxParts parts.
Turns(roles, parts) ==
    {Content(r, ps) : r \in roles, ps \in SeqsUpTo(parts, MaxParts)} \cup {NilContent}

ReqRoles == {user, model, tool}

ReqParts == {TextPart("a"), FunctionCallPart("t1", "f"),
             FunctionResponsePart("t1", "f"), ZeroPart}

Init ==
    /\ contents = <<>>
    /\ pc = "build"
    /\ messages = <<>>
    /\ err = "nil"
    /\ stream = FALSE
    /\ events = <<>>
    /\ streamErr = "nil"
    /\ message = ZeroAnthropicMessage
    /\ yielded = <<>>
    /\ stopped = FALSE
    /\ calls = 0
    /\ source = "none"
    /\ env = NoEnv
    /\ cfg = NilConfig
    /\ anthropicModel = NewModel(cfg, env)
    /\ reqConfig = NilGenerateConfig
    /\ params = ZeroParams

\* The caller appends one turn to req.Contents.
AddTurn(turns) ==
    /\ pc = "build"
    /\ Len(contents) < MaxTurns
    /\ \E t \in turns : contents' = Append(contents, t)
    /\ UNCHANGED <<pc, messages, err, stream, events, streamErr, message, source,
                   yielded, stopped, calls>>
    /\ UNCHANGED <<env, cfg, anthropicModel, reqConfig, params>>

\* A call of converters.ContentsToMessages on the turns built so far, r
\* being what it returns.
Converting(r) ==
    /\ pc = "build"
    /\ messages' = r.messages
    /\ err' = r.err
    /\ pc' = "converted"
    /\ UNCHANGED <<contents, stream, events, streamErr, message, yielded, source,
                   stopped, calls>>
    /\ UNCHANGED <<env, cfg, anthropicModel, reqConfig, params>>

Convert == Converting(ContentsToMessages(contents))

Next == AddTurn(Turns(ReqRoles, ReqParts)) \/ Convert

Spec == Init /\ [][Next]_vars

ToolRoles == {user, model}

ToolParts == {FunctionCallPart("t1", "f"), FunctionResponsePart("t1", "f"),
              FunctionCallPart("", "f"), FunctionResponsePart("", "f"),
              FunctionResponsePart("t2", "f")}

NextTool == AddTurn(Turns(ToolRoles, ToolParts)) \/ Convert

\* Requests made of function calls and function responses only.
SpecTool == Init /\ [][NextTool]_vars

UpperModel == <<"M", "O", "D", "E", "L">>
Assistant == <<"A", "s", "s", "i", "s", "t", "a", "n", "t">>
User == <<"U", "s", "e", "r">>

RoleRoles == {user, User, UpperModel, Assistant, tool, <<>>}

RoleParts == {TextPart("a"), ZeroPart, NilPart}

NextRole == AddTurn(Turns(RoleRoles, RoleParts)) \/ Convert

\* Requests without function parts, of roles in any letter case, of
\* unsupported roles, and of text, empty, nil or no parts.
SpecRole == Init /\ [][NextRole]_vars

imageJpeg == <<"i", "m", "a", "g", "e", "/", "j", "p", "e", "g">>
imagePng == <<"i", "m", "a", "g", "e", "/", "p", "n", "g">>
imageGif == <<"i", "m", "a", "g", "e", "/", "g", "i", "f">>
imageWebp == <<"i", "m", "a", "g", "e", "/", "w", "e", "b", "p">>
imageBmp == <<"i", "m", "a", "g", "e", "/", "b", "m", "p">>
upperImagePng == <<"I", "M", "A", "G", "E", "/", "P", "N", "G">>
mixedApplicationPdf == <<"A", "p", "p", "l", "i", "c", "a", "t", "i", "o", "n", "/", "P", "D", "F">>
textPlain == <<"t", "e", "x", "t", "/", "p", "l", "a", "i", "n">>

\* MIME types the translator tells apart: the four image types it maps,
\* an image type it does not, the bare image/ prefix, PDF, a type of
\* another family, the empty type, and two types in other letter cases.
MIMETypes ==
    {imageJpeg, imagePng, imageGif, imageWebp, imageBmp, imagePrefix,
     upperImagePng, applicationPdf, mixedApplicationPdf, textPlain, <<>>}

MediaParts ==
    {InlineDataPart(m) : m \in MIMETypes} \cup {FileDataPart(m) : m \in MIMETypes}

\* One turn of one to MaxParts media parts, not yet translated.
InitMedia ==
    /\ contents \in {<<Content(user, ps)>> :
                        ps \in SeqsUpTo(MediaParts, MaxParts) \ {<<>>}}
    /\ pc = "build"
    /\ messages = <<>>
    /\ err = "nil"
    /\ stream = FALSE
    /\ events = <<>>
    /\ streamErr = "nil"
    /\ message = ZeroAnthropicMessage
    /\ yielded = <<>>
    /\ stopped = FALSE
    /\ calls = 0
    /\ source = "none"
    /\ env = NoEnv
    /\ cfg = NilConfig
    /\ anthropicModel = NewModel(cfg, env)
    /\ reqConfig = NilGenerateConfig
    /\ params = ZeroParams

NextMedia == Convert

\* Turns of inline-binary and file-reference parts of any MIME type,
\* translated.
SpecMedia == InitMedia /\ [][NextMedia]_vars

\* Function calls with an id or none and with a nil, an empty and a
\* non-empty argument map; function responses with an id or none, of two
\* names, and one whose payload does not marshal.
CallParts ==
    {[FunctionCallPart(id, "f") EXCEPT !.Args = args] :
         id \in {"t1", ""}, args \in {"nil", "{}", "{\"k\":1}"}}
    \cup {FunctionResponsePart(id, name) : id \in {"t1", ""}, name \in {"f", "g"}}
    \cup {[FunctionResponsePart("t1", "f") EXCEPT !.marshalFails = TRUE]}

\* One turn of one to MaxParts function parts, not yet translated.
InitCall ==
    /\ contents \in {<<Content(r, ps)>> :
                        r \in {user, model},
                        ps \in SeqsUpTo(CallParts, MaxParts) \ {<<>>}}
    /\ pc = "build"
    /\ messages = <<>>
    /\ err = "nil"
    /\ stream = FALSE
    /\ events = <<>>
    /\ streamErr = "nil"
    /\ message = ZeroAnthropicMessage
    /\ yielded = <<>>
    /\ stopped = FALSE
    /\ calls = 0
    /\ source = "none"
    /\ env = NoEnv
    /\ cfg = NilConfig
    /\ anthropicModel = NewModel(cfg, env)
    /\ reqConfig = NilGenerateConfig
    /\ params = ZeroParams

NextCall == Convert

\* Turns of function calls and function responses, translated.
SpecCall == InitCall /\ [][NextCall]_vars

----------------------------------------------------------------------------
(* GenerateContent.                                                        *)

GenRoles == {user, User, model, tool}

GenParts == {TextPart("a"), FunctionCallPart("t1", "f"), FunctionResponsePart("t1", "f")}

\* The messages the provider client answers a non-streaming call with.
ProviderMessages ==
    {[ZeroAnthropicMessage EXCEPT
          !.Content = <<[ZeroContentBlock EXCEPT !.Type = "text", !.Text = "Hi"]>>,
          !.StopReason = "end_turn", !.InputTokens = Int64Of(10),
          !.OutputTokens = Int64Of(20)]}

\* GenerateContent(ctx, req, stream): the request gets its continuation
\* turn and the sequence is returned; nothing else happens before the
\* sequence is iterated.
GenerateContent(modes) ==
    /\ pc = "build"
    /\ \E s \in modes : stream' = s
    /\ contents' = maybeAppendUserContent(contents)
    /\ pc' = "called"
    /\ UNCHANGED <<messages, err, events, streamErr, message, yielded, stopped, calls,
                   source>>
    /\ UNCHANGED <<env, cfg, anthropicModel, reqConfig, params>>

\* The non-streaming sequence, iterated: generate and one yield, r being
\* what convertRequest returns and msgs the messages the provider may
\* answer with.
GeneratingFrom(r, msgs) ==
    /\ pc = "called" /\ ~stream
    /\ IF r.err # "nil"
       THEN /\ yielded' = <<Yield(NilResponse, "failed to convert request")>>
            /\ err' = r.err
            /\ UNCHANGED <<messages, calls, params, message>>
       ELSE /\ messages' = r.messages
            /\ params' = [MaxTokens |-> r.MaxTokens, Tools |-> r.Tools]
            /\ calls' = calls + 1
            /\ \/ \E msg \in msgs :
                      /\ message' = msg
                      /\ yielded' = <<Yield(MessageToLLMResponse(msg), "nil")>>
               \/ /\ yielded' = <<Yield(NilResponse, "failed to call model")>>
                  /\ UNCHANGED message
            /\ UNCHANGED err
    /\ pc' = "closed"
    /\ UNCHANGED <<contents, stream, events, streamErr, stopped, source>>
    /\ UNCHANGED <<env, cfg, anthropicModel, reqConfig>>

Generating(r) == GeneratingFrom(r, ProviderMessages)

Generate == Generating(convertRequest(anthropicModel, contents, reqConfig))

NextGen == AddTurn(Turns(GenRoles, GenParts)) \/ GenerateContent({FALSE}) \/ Generate

\* Requests of any shape going through a non-streaming GenerateContent.
SpecGen == Init /\ [][NextGen]_vars

\* The start of the streaming sequence calling the client before it looks
\* at the conversion error.
StartingWithoutCheck(r) ==
    /\ pc = "called" /\ stream
    /\ IF r.err # "nil"
       THEN /\ yielded' = Append(yielded, Yield(NilResponse, "failed to convert request"))
            /\ err' = r.err
            /\ pc' = "closed"
            /\ calls' = calls + 1
            /\ UNCHANGED <<messages, message, source, params>>
       ELSE /\ messages' = r.messages
            /\ params' = [MaxTokens |-> r.MaxTokens, Tools |-> r.Tools]
            /\ calls' = calls + 1
            /\ message' = ZeroAnthropicMessage
            /\ source' = "open"
            /\ pc' = "open"
            /\ UNCHANGED <<yielded, err>>
    /\ UNCHANGED <<contents, stream, events, streamErr, stopped>>
    /\ UNCHANGED <<env, cfg, anthropicModel, reqConfig>>

\* The head of the streaming sequence: the request is converted and the
\* stream opened, or the conversion error is yielded; r is what
\* convertRequest returns.
Starting(r) ==
    /\ pc = "called" /\ stream
    /\ IF r.err # "nil"
       THEN /\ yielded' = Append(yielded, Yield(NilResponse, "failed to convert request"))
            /\ err' = r.err
            /\ pc' = "closed"
            /\ UNCHANGED <<messages, calls, message, source, params>>
       ELSE /\ messages' = r.messages
            /\ params' = [MaxTokens |-> r.MaxTokens, Tools |-> r.Tools]
            /\ calls' = calls + 1
            /\ message' = ZeroAnthropicMessage
            /\ source' = "open"
            /\ pc' = "open"
            /\ UNCHANGED <<yielded, err>>
    /\ UNCHANGED <<contents, stream, events, streamErr, stopped>>
    /\ UNCHANGED <<env, cfg, anthropicModel, reqConfig>>

StartStream == Starting(convertRequest(anthropicModel, contents, reqConfig))

\* The events the provider can send after evs: a message_start, then
\* content blocks (a start, deltas of the block's kind, a stop), then a
\* message_delta and a message_stop.  A provider at fault sends a delta
\* before any block.
BlockOpen(evs) ==
    \E i \in 1..Len(evs) :
        /\ evs[i].type = "content_block_start"
        /\ \A j \in (i + 1)..Len(evs) :
               evs[j].type \notin {"content_block_start", "content_block_stop"}

OpenBlockType(evs) ==
    LET i == CHOOSE i \in 1..Len(evs) :
                 /\ evs[i].type = "content_block_start"
                 /\ \A j \in (i + 1)..Len(evs) : evs[j].type # "content_block_start"
    IN  evs[i].block

Seen(evs, type) == \E i \in 1..Len(evs) : evs[i].type = type

NextEvents(evs) ==
    IF Len(evs) = 0 THEN {MessageStart}
    ELSE IF Seen(evs, "message_stop") THEN {}
    ELSE IF Seen(evs, "message_delta") THEN {MessageStop}
    ELSE IF BlockOpen(evs) THEN
        {ContentBlockStop} \cup
        (CASE OpenBlockType(evs) = "text" ->
                  {ContentBlockDelta("text_delta", "He"), ContentBlockDelta("text_delta", "llo")}
           [] OpenBlockType(evs) = "thinking" ->
                  {ContentBlockDelta("thinking_delta", "hm")}
           [] OTHER -> {ContentBlockDelta("input_json_delta", "{\"k\":1}")})
    ELSE {ContentBlockStart("text"), ContentBlockStart("thinking"),
          ContentBlockStart("tool_use"), MessageDelta("end_turn")}
         \cup (IF Seen(evs, "content_block_start") THEN {}
               ELSE {ContentBlockDelta("text_delta", "He")})

\* One turn of the loop: stream.Next() delivers the event ev, the event is
\* accumulated (a is what Accumulate returns), and a text or thinking delta
\* is yielded as a partial response (partial is what partialOf returns);
\* the consumer answers the yield.
Looping(ev, a, partial) ==
    /\ events' = Append(events, ev)
    /\ IF a.err # "nil"
       THEN /\ yielded' = Append(yielded, Yield(NilResponse, "failed to accumulate message"))
            /\ pc' = "closed"
            /\ UNCHANGED <<message, stopped>>
       ELSE /\ message' = a.message
            /\ yielded' = yielded \o partial
            /\ IF partial = <<>>
               THEN UNCHANGED <<pc, stopped>>
               ELSE \E more \in BOOLEAN :
                        /\ stopped' = ~more
                        /\ pc' = afterYield(more)

StreamNext ==
    /\ pc = "open"
    /\ Len(events) < MaxEvents
    /\ \E ev \in NextEvents(events) : Looping(ev, Accumulate(message, ev), partialOf(ev))
    /\ UNCHANGED <<contents, messages, err, stream, streamErr, calls, source>>
    /\ UNCHANGED <<env, cfg, anthropicModel, reqConfig, params>>

\* stream.Next() returns false: the events are exhausted, or the transport
\* failed, which stream.Err() then reports; the stream's error or the final
\* response is yielded and the sequence ends.
StreamEnd ==
    /\ pc = "open"
    /\ \E e \in {"nil", "transport error"} :
           /\ streamErr' = e
           /\ yielded' = Append(yielded, finalOf(message, e))
    /\ source' = "drained"
    /\ pc' = "closed"
    /\ UNCHANGED <<contents, messages, err, stream, events, message, stopped, calls>>
    /\ UNCHANGED <<env, cfg, anthropicModel, reqConfig, params>>

\* The requests of the streaming runs: one that converts, one that is
\* empty and one that does not convert.
StreamRequests ==
    {<<>>, <<Content(user, <<TextPart("a")>>)>>, <<Content(tool, <<TextPart("a")>>)>>}

InitStream ==
    /\ contents \in StreamRequests
    /\ pc = "build"
    /\ messages = <<>>
    /\ err = "nil"
    /\ stream = FALSE
    /\ events = <<>>
    /\ streamErr = "nil"
    /\ message = ZeroAnthropicMessage
    /\ yielded = <<>>
    /\ stopped = FALSE
    /\ calls = 0
    /\ source = "none"
    /\ env = NoEnv
    /\ cfg = NilConfig
    /\ anthropicModel = NewModel(cfg, env)
    /\ reqConfig = NilGenerateConfig
    /\ params = ZeroParams

NextStream ==
    GenerateContent({TRUE}) \/ StartStream \/ StreamNext \/ StreamEnd

\* A streaming GenerateContent against a provider that sends any stream of
\* at most MaxEvents events.
SpecStream == InitStream /\ [][NextStream]_vars

----------------------------------------------------------------------------
(* Properties of the request translator.                                   *)

HasFunctionResponse(c) ==
    \E i \in 1..Len(c.Parts) : ~c.Parts[i].isNil /\ c.Parts[i].hasFunctionResponse

HasFunctionCall(c) ==
    \E i \in 1..Len(c.Parts) : ~c.Parts[i].isNil /\ c.Parts[i].hasFunctionCall

Converted == pc = "converted" /\ err = "nil"

\* How the turns of cs are laid out in the wire list: per[i] is what
\* contentToMessage makes of turn i, em the turns it makes a message of,
\* and run[i] the index of the maximal same-role run of emitted turns that
\* turn i falls into (a new run opens at every emitted turn whose role is
\* not the role of the emitted turn before it).
Layout(cs) ==
    LET per == [i \in 1..Len(cs) |-> contentToMessage(cs[i])]
        em == {i \in 1..Len(cs) : ~per[i].isNil}
        opens == {j \in em : \E p \in em :
                      /\ p < j
                      /\ \A q \in em : q < j => q <= p
                      /\ per[p].val.Role # per[j].val.Role}
    IN  [per |-> per, em |-> em,
         run |-> [i \in 1..Len(cs) |-> 1 + Cardinality({j \in opens : j <= i})]]

\* The blocks of the emitted turns i.. of run k, in turn order.
RECURSIVE RunBlocks(_, _, _)
RunBlocks(L, k, i) ==
    IF i > Len(L.per) THEN <<>>
    ELSE IF i \in L.em /\ L.run[i] = k
         THEN L.per[i].val.Content \o RunBlocks(L, k, i + 1)
         ELSE RunBlocks(L, k, i + 1)

RECURSIVE Flatten(_)
Flatten(msgs) ==
    IF Len(msgs) = 0 THEN <<>> ELSE msgs[1].Content \o Flatten(Tail(msgs))

HasBlock(msg, type, id) ==
    \E b \in 1..Len(msg.Content) : msg.Content[b].type = type /\ msg.Content[b].id = id

\* C1: whenever ContentsToMessages succeeds, no two consecutive messages of
\* the returned list have the same role.
C1_Alternation ==
    Converted =>
        \A i \in 1..(Len(messages) - 1) : messages[i].Role # messages[i + 1].Role

\* A request of three emitted turns, two of them consecutive with the same
\* role, that came out as two messages.
C1_Witness ==
    /\ Converted
    /\ Len(contents) = 3
    /\ Len(messages) = 2
    /\ LET L == Layout(contents) IN
           L.em = {1, 2, 3} /\ L.per[1].val.Role = L.per[2].val.Role

\* C4: a turn holding a FunctionResponse part goes to a user message,
\* whatever role it declares: the message built for the turn has role user,
\* so has the message of the returned list that holds its blocks, and every
\* tool-result block of the list sits in a user message.
C4_ResponseForcesUser ==
    Converted =>
        /\ LET L == Layout(contents) IN
           \A i \in 1..Len(contents) :
               (~contents[i].isNil /\ HasFunctionResponse(contents[i])) =>
                   /\ i \in L.em
                   /\ L.per[i].val.Role = "user"
                   /\ messages[L.run[i]].Role = "user"
        /\ \A k \in 1..Len(messages) :
               (\E b \in 1..Len(messages[k].Content) :
                    messages[k].Content[b].type = "tool_result")
                   => messages[k].Role = "user"

\* A translated request with a function response in a turn declared model,
\* one in a turn of an unsupported role and one next to a function call.
C4_Witness ==
    /\ Converted
    /\ \E i \in 1..Len(contents) :
           ~contents[i].isNil /\ HasFunctionResponse(contents[i])
           /\ contents[i].Role = model
    /\ \E i \in 1..Len(contents) :
           ~contents[i].isNil /\ HasFunctionResponse(contents[i])
           /\ contents[i].Role = tool
    /\ \E i \in 1..Len(contents) :
           ~contents[i].isNil /\ HasFunctionResponse(contents[i])
           /\ HasFunctionCall(contents[i])

\* C5 as stated: a turn holding a FunctionCall part goes to an assistant
\* message whatever else it holds.
C5_Original ==
    Converted =>
        LET L == Layout(contents) IN
        \A i \in 1..Len(contents) :
            (~contents[i].isNil /\ HasFunctionCall(contents[i])) =>
                /\ i \in L.em
                /\ L.per[i].val.Role = "assistant"
                /\ messages[L.run[i]].Role = "assistant"

\* C5: a turn holding a FunctionCall part and no FunctionResponse part goes
\* to an assistant message, whatever role it declares and whatever other
\* parts it holds; a FunctionResponse part in the same turn wins and makes
\* the message a user message.
C5_CallForcesAssistant ==
    Converted =>
        LET L == Layout(contents) IN
        \A i \in 1..Len(contents) :
            (~contents[i].isNil /\ HasFunctionCall(contents[i])) =>
                /\ i \in L.em
                /\ L.per[i].val.Role =
                       IF HasFunctionResponse(contents[i]) THEN "user" ELSE "assistant"
                /\ messages[L.run[i]].Role = L.per[i].val.Role

\* A translated request with a function call in a turn declared user, next
\* to a text part, and one in a turn of an unsupported role.
C5_Witness ==
    /\ Converted
    /\ \E i \in 1..Len(contents) :
           /\ ~contents[i].isNil /\ contents[i].Role = user
           /\ HasFunctionCall(contents[i]) /\ ~HasFunctionResponse(contents[i])
           /\ \E p \in 1..Len(contents[i].Parts) : contents[i].Parts[p].Text # ""
    /\ \E i \in 1..Len(contents) :
           /\ ~contents[i].isNil /\ contents[i].Role = tool
           /\ HasFunctionCall(contents[i]) /\ ~HasFunctionResponse(contents[i])

\* C6: merging neither drops nor reorders blocks: there is one message per
\* maximal run of same-role emitted turns, with the run's role and the
\* concatenation of the run's blocks in turn order, so the blocks of the
\* whole list are the blocks of the turns in input order.
C6_MergeKeepsBlocks ==
    Converted =>
        LET L == Layout(contents) IN
        /\ Len(messages) = Cardinality({L.run[i] : i \in L.em})
        /\ \A i \in L.em :
               /\ L.run[i] \in 1..Len(messages)
               /\ messages[L.run[i]].Role = L.per[i].val.Role
        /\ \A k \in 1..Len(messages) : messages[k].Content = RunBlocks(L, k, 1)
        /\ Flatten(messages) = Flatten(convertContents(contents, 1, <<>>).messages)

\* Three emitted turns, the first two of one role with two different blocks
\* each, merged into one message of four blocks.
C6_Witness ==
    /\ Converted
    /\ Len(messages) = 2
    /\ Len(messages[1].Content) = 4
    /\ LET L == Layout(contents) IN
           /\ L.em = {1, 2, 3}
           /\ L.per[1].val.Role = L.per[2].val.Role
           /\ L.per[2].val.Role # L.per[3].val.Role
           /\ Len(L.per[1].val.Content) = 2
           /\ L.per[1].val.Content[1] # L.per[1].val.Content[2]
           /\ L.per[1].val.Content # L.per[2].val.Content

\* Turn i holds a FunctionCall part with id x.
CallsWith(c, x) ==
    ~c.isNil /\ \E p \in 1..Len(c.Parts) :
        ~c.Parts[p].isNil /\ c.Parts[p].hasFunctionCall /\ c.Parts[p].ID = x

\* Turn i holds a FunctionResponse part with id x.
RespondsWith(c, x) ==
    ~c.isNil /\ \E p \in 1..Len(c.Parts) :
        ~c.Parts[p].isNil /\ c.Parts[p].hasFunctionResponse /\ c.Parts[p].ID = x

ToolIds == {"", "t1", "t2"}

\* The call of turn i and the response of turn j come out as a tool-use
\* block with id x in an assistant message and a tool-result block
\* referring to x in a later user message.
Correlated(L, i, j, x) ==
    /\ i \in L.em /\ j \in L.em
    /\ L.run[i] < L.run[j]
    /\ messages[L.run[i]].Role = "assistant"
    /\ HasBlock(messages[L.run[i]], "tool_use", x)
    /\ messages[L.run[j]].Role = "user"
    /\ HasBlock(messages[L.run[j]], "tool_result", x)

\* C7 as stated: a turn with a FunctionCall of id x followed by a turn with
\* a FunctionResponse of id x gives a tool-use block x in an assistant
\* message and a tool-result block referring to x in a later user message.
C7_Original ==
    Converted =>
        LET L == Layout(contents) IN
        \A i, j \in 1..Len(contents) : \A x \in ToolIds :
            (i < j /\ CallsWith(contents[i], x) /\ RespondsWith(contents[j], x))
                => Correlated(L, i, j, x)

\* C7: the same, for a non-empty id x and a calling turn that holds no
\* FunctionResponse part.  (With a FunctionResponse part the calling turn is
\* itself a user message and merges with the responding turn; with an empty
\* id the tool-result refers to the function's name.)
C7_ToolCorrelation ==
    Converted =>
        LET L == Layout(contents) IN
        \A i, j \in 1..Len(contents) : \A x \in ToolIds \ {""} :
            (i < j /\ CallsWith(contents[i], x) /\ ~HasFunctionResponse(contents[i])
                   /\ RespondsWith(contents[j], x))
                => Correlated(L, i, j, x)

\* A call t1 in a turn declared user, then a response t1 (next to a response
\* t2) in a turn declared model, translated with success.
C7_Witness ==
    /\ Converted
    /\ Len(contents) = 2
    /\ contents[1] = Content(user, <<FunctionCallPart("t1", "f")>>)
    /\ contents[2] = Content(model, <<FunctionResponsePart("t2", "f"),
                                      FunctionResponsePart("t1", "f")>>)
    /\ Correlated(Layout(contents), 1, 2, "t1")

----------------------------------------------------------------------------
(* Properties of GenerateContent.                                          *)

\* C2 as stated: the wire list built for the provider by GenerateContent
\* ends with a user message.
C2_EndsWithUser ==
    (pc = "closed" /\ ~stream /\ err = "nil") =>
        (Len(messages) > 0 /\ messages[Len(messages)].Role = "user")

ContinueTurn == NewContentFromText("Continue processing previous requests as instructed.", user)

\* C3 as stated: when the last turn of the request translates to a message,
\* GenerateContent appends the synthetic user turn exactly when that
\* message's role is not user.
C3_EffectiveRole ==
    [][(pc = "build" /\ pc' = "called" /\ Len(contents) > 0
          /\ ~contents[Len(contents)].isNil
          /\ contentToMessage(contents[Len(contents)]).err = "nil"
          /\ ~contentToMessage(contents[Len(contents)]).isNil)
        => contents' =
               IF contentToMessage(contents[Len(contents)]).val.Role = "user"
               THEN contents
               ELSE Append(contents, ContinueTurn)]_vars

\* The sequence generateStream returned is iterated again after a run of it
\* ended: the function value is called once more and its body runs from
\* the top, with the request converted and a stream opened as in Starting;
\* r is what convertRequest returns.  yielded goes on recording the values
\* the consumer is handed.  At most MaxRuns runs are followed: a run that
\* converts makes one call, a run that does not yields one value.
Restarting(r) ==
    /\ pc = "closed" /\ stream
    /\ calls < MaxRuns
    /\ (r.err # "nil" => Len(yielded) < MaxRuns)
    /\ IF r.err # "nil"
       THEN /\ yielded' = Append(yielded, Yield(NilResponse, "failed to convert request"))
            /\ err' = r.err
            /\ pc' = "closed"
            /\ UNCHANGED <<messages, calls, message, events, streamErr, stopped, source,
                           params>>
       ELSE /\ messages' = r.messages
            /\ params' = [MaxTokens |-> r.MaxTokens, Tools |-> r.Tools]
            /\ calls' = calls + 1
            /\ message' = ZeroAnthropicMessage
            /\ events' = <<>>
            /\ streamErr' = "nil"
            /\ stopped' = FALSE
            /\ source' = "open"
            /\ pc' = "open"
            /\ UNCHANGED <<yielded, err>>
    /\ UNCHANGED <<contents, stream>>
    /\ UNCHANGED <<env, cfg, anthropicModel, reqConfig>>

Reiterate == Restarting(convertRequest(anthropicModel, contents, reqConfig))

NextRestart == NextStream \/ Reiterate

\* A streaming GenerateContent whose sequence the consumer may iterate
\* again.
SpecRestart == InitStream /\ [][NextRestart]_vars

\* The Configs a caller hands to NewModel: none, one that leaves
\* DefaultMaxTokens zero, and some that set it.
Configs == {NilConfig} \cup {Config(d) : d \in {0, 1, 2048, 8192, -1}}

\* The generation configs of a request: none, MaxOutputTokens unset (zero),
\* set, and negative.
GenerateConfigs ==
    {NilGenerateConfig} \cup {GenerateContentConfig(n) : n \in {0, 1, 1024, 2147483647, -5}}

\* Before NewModel: a Config, and a request with its generation config.
InitTokens ==
    /\ contents \in StreamRequests
    /\ pc = "new"
    /\ messages = <<>>
    /\ err = "nil"
    /\ stream = FALSE
    /\ events = <<>>
    /\ streamErr = "nil"
    /\ message = ZeroAnthropicMessage
    /\ yielded = <<>>
    /\ stopped = FALSE
    /\ calls = 0
    /\ source = "none"
    /\ env = NoEnv
    /\ cfg \in Configs
    /\ anthropicModel = NilModel
    /\ reqConfig \in GenerateConfigs
    /\ params = ZeroParams

\* NewModel(ctx, modelName, cfg): the model, or none and an error.
MakeModel ==
    /\ pc = "new"
    /\ anthropicModel' = NewModel(cfg, env)
    /\ pc' = IF anthropicModel'.isNil THEN "failed" ELSE "build"
    /\ UNCHANGED <<contents, messages, err, stream, events, streamErr, message,
                   yielded, stopped, calls, source, env, cfg, reqConfig, params>>

NextTokens == MakeModel \/ GenerateContent(BOOLEAN) \/ Generate \/ StartStream

\* A model made from any Config, and one request of any generation config
\* sent through it, streaming or not.
SpecTokens == InitTokens /\ [][NextTokens]_vars

upperString == <<"S", "T", "R", "I", "N", "G">>
lowerString == <<"s", "t", "r", "i", "n", "g">>

\* fd.Parameters, a *genai.Schema: nil, or its Properties and Required.
NilParameters == [isNil |-> TRUE, Properties |-> NilMap, Required |-> <<>>]
Parameters(props, req) == [isNil |-> FALSE, Properties |-> props, Required |-> req]

\* The structured schemas: none; and properties nil, empty, one property
\* a, or a and a nil schema c, each with and without a required list.
StructuredSchemas ==
    {NilParameters} \cup
    {Parameters(props, req) :
        props \in {NilMap, EmptyMap, Map("a" :> Schema(upperString)),
                   Map(("a" :> Schema(upperString)) @@ ("c" :> NilSchema))},
        req \in {<<>>, <<"a">>}}

\* fd.ParametersJsonSchema, an any, by its dynamic type: kind "nil" is the
\* nil interface, "map" a map[string]any (properties is the value under
\* "properties", a map[string]any or not; required the value under
\* "required"), "schema" a non-nil *jsonschema.Schema (Properties,
\* Required), "other" any other type.
NoRequired == [kind |-> "nil", strs |-> NilList, anys |-> <<>>]
RequiredStrings(q) == [NoRequired EXCEPT !.kind = "strings", !.strs = q]
RequiredAnys(q) == [NoRequired EXCEPT !.kind = "anys", !.anys = q]

ZeroJson ==
    [kind |-> "nil", properties |-> [isMap |-> FALSE, val |-> NilMap],
     required |-> NoRequired,
     Properties |-> NilMap, Required |-> <<>>]

JsonMap(props, req) == [ZeroJson EXCEPT !.kind = "map", !.properties = props, !.required = req]

JsonSchema(props, req) ==
    [ZeroJson EXCEPT !.kind = "schema", !.Properties = props, !.Required = req]

AnyString(x) == [isString |-> TRUE, s |-> x]
AnyNumber == [isString |-> FALSE, s |-> ""]

\* The raw schemas: none; key mappings with properties absent, a nil map
\* or one property b, and required absent, a []string, a []any of the same
\* names, or a []any with a number in it, or another type; jsonschema objects with and
\* without properties and required; and a value of another type.
RawSchemas ==
    {ZeroJson, [ZeroJson EXCEPT !.kind = "other"]} \cup
    {JsonMap(props, req) :
        props \in {[isMap |-> FALSE, val |-> NilMap], [isMap |-> TRUE, val |-> NilMap],
                   [isMap |-> TRUE, val |-> Map("b" :> Map("type" :> lowerString))]},
        req \in {NoRequired, [NoRequired EXCEPT !.kind = "other"],
                 RequiredStrings(NilList), RequiredStrings(List(<<>>)),
                 RequiredStrings(List(<<"b">>)), RequiredStrings(List(<<"b", "a">>)),
                 RequiredAnys(<<>>), RequiredAnys(<<AnyString("b")>>),
                 RequiredAnys(<<AnyString("b"), AnyString("a")>>),
                 RequiredAnys(<<AnyNumber, AnyString("b")>>)}} \cup
    {JsonSchema(props, req) :
        props \in {NilMap, Map("b" :> Schema(lowerString))},
        req \in {<<>>, <<"b">>}}

\* A *genai.FunctionDeclaration and a *genai.Tool.
FunctionDeclaration(name, parameters, json) ==
    [isNil |-> FALSE, Name |-> name, Parameters |-> parameters,
     ParametersJsonSchema |-> json]

Tool(fds) == [isNil |-> FALSE, FunctionDeclarations |-> fds]

Declarations ==
    {FunctionDeclaration("f", ps, js) : ps \in StructuredSchemas, js \in RawSchemas}

\* A nil *genai.Tool and a nil *genai.FunctionDeclaration.
NilTool == [isNil |-> TRUE, FunctionDeclarations |-> <<>>]

NilDeclaration ==
    [isNil |-> TRUE, Name |-> "", Parameters |-> NilParameters,
     ParametersJsonSchema |-> ZeroJson]

\* A declaration without a schema.
Bare(name) == FunctionDeclaration(name, NilParameters, ZeroJson)

\* Tool lists of two to four tools, with nil tools, tools without
\* declarations and nil declarations among them.
ToolLists ==
    {<<NilTool, Tool(<<NilDeclaration, Bare("f"), Bare("g")>>), Tool(<<>>), Tool(<<Bare("h")>>)>>,
     <<Tool(<<Bare("g")>>), NilTool>>,
     <<Tool(<<Bare("h"), NilDeclaration>>), Tool(<<Bare("f")>>)>>,
     <<NilTool, Tool(<<>>)>>,
     <<Tool(<<NilDeclaration>>), Tool(<<NilDeclaration, NilDeclaration>>)>>}

\* A request of one user turn whose config carries one tool of one
\* function declaration, or one of the tool lists.
InitSchema ==
    /\ contents = <<Content(user, <<TextPart("a")>>)>>
    /\ pc = "build"
    /\ messages = <<>>
    /\ err = "nil"
    /\ stream = FALSE
    /\ events = <<>>
    /\ streamErr = "nil"
    /\ message = ZeroAnthropicMessage
    /\ yielded = <<>>
    /\ stopped = FALSE
    /\ calls = 0
    /\ source = "none"
    /\ env = NoEnv
    /\ cfg = NilConfig
    /\ anthropicModel = NewModel(cfg, env)
    /\ reqConfig \in {[GenerateContentConfig(0) EXCEPT !.Tools = <<Tool(<<fd>>)>>] :
                          fd \in Declarations}
                     \cup {[GenerateContentConfig(0) EXCEPT !.Tools = tools] :
                              tools \in ToolLists}
    /\ params = ZeroParams

NextSchema == GenerateContent(BOOLEAN) \/ Generate \/ StartStream

\* Requests with a function declaration of any schema representation,
\* converted for the provider.
SpecSchema == InitSchema /\ [][NextSchema]_vars

\* Token counts of the wire usage, int64: zero, small ones, the largest
\* int32 and the one after it, 2^32, the largest int64, and -1.
MaxInt32 == <<65535, 32767, 0, 0>>
TwoTo31 == <<0, 32768, 0, 0>>
TwoTo32 == <<0, 0, 1, 0>>
MaxInt64 == <<65535, 65535, 65535, 32767>>
MinusOne64 == <<65535, 65535, 65535, 65535>>

TokenCounts ==
    {Int64Of(0), Int64Of(1), Int64Of(10), Int64Of(20), MaxInt32, TwoTo31, TwoTo32,
     MaxInt64, MinusOne64}

\* The wire stop reasons: those of the SDK, the empty one, and one in
\* another case.
StopReasons ==
    {"end_turn", "max_tokens", "stop_sequence", "tool_use", "pause_turn", "refusal",
     "model_context_window_exceeded", "", "END_TURN"}

\* Signatures, as sequences of the values of their characters (64 is the
\* padding character, 65 a character outside the alphabet): the base64 of
\* the bytes 1 2 3, of 1 2, of 1 and of 1 2 3 4; the empty one; an encoding
\* of the byte 1 with other padding bits than the encoder writes; three
\* that are not base64 (a character outside the alphabet in the first and
\* in the second group, a lone character).
Signatures ==
    {Base64Encode(<<1, 2, 3>>), Base64Encode(<<1, 2>>), Base64Encode(<<1>>),
     Base64Encode(<<1, 2, 3, 4>>), <<>>, <<0, 17, 64, 64>>,
     <<65, 0, 0, 0>>, Base64Encode(<<1, 2, 3>>) \o <<0, 65, 0, 0>>, <<0>>}

\* The JSON inputs of a tool-use block: none, objects, null, an array, a
\* truncated object.
ToolInputs == {"", "{}", "{\"k\":1}", "null", "[1]", "{\"k\":"}

\* Content blocks of a received message.
WireBlocks ==
    {[ZeroContentBlock EXCEPT !.Type = "text", !.Text = "Hi"],
     [ZeroContentBlock EXCEPT !.Type = "redacted_thinking"],
     [ZeroContentBlock EXCEPT !.Type = "web_fetch_tool_result"]} \cup
    {[ZeroContentBlock EXCEPT !.Type = "thinking", !.Thinking = t, !.Signature = sig] :
        t \in {"", "t"}, sig \in Signatures} \cup
    {[ZeroContentBlock EXCEPT !.Type = ty, !.ID = "t1", !.Name = "f", !.Input = in] :
        ty \in {"tool_use", "server_tool_use"}, in \in ToolInputs}

\* The messages the provider may answer with: one or two blocks of any
\* kind with a small usage, and one text block with any usage and any stop
\* reason.
WireMessages ==
    {[ZeroAnthropicMessage EXCEPT !.Content = bs, !.StopReason = "end_turn",
                                  !.InputTokens = Int64Of(10),
                                  !.OutputTokens = Int64Of(20)] :
        bs \in SeqsUpTo(WireBlocks, 2)} \cup
    {[ZeroAnthropicMessage EXCEPT
          !.Content = <<[ZeroContentBlock EXCEPT !.Type = "text", !.Text = "Hi"]>>,
          !.StopReason = sr, !.InputTokens = in, !.OutputTokens = out] :
        sr \in StopReasons, in \in TokenCounts, out \in TokenCounts}

\* One user turn, not yet sent.
InitResponse ==
    /\ contents = <<Content(user, <<TextPart("a")>>)>>
    /\ pc = "build"
    /\ messages = <<>>
    /\ err = "nil"
    /\ stream = FALSE
    /\ events = <<>>
    /\ streamErr = "nil"
    /\ message = ZeroAnthropicMessage
    /\ yielded = <<>>
    /\ stopped = FALSE
    /\ calls = 0
    /\ source = "none"
    /\ env = NoEnv
    /\ cfg = NilConfig
    /\ anthropicModel = NewModel(cfg, env)
    /\ reqConfig = NilGenerateConfig
    /\ params = ZeroParams

Respond == GeneratingFrom(convertRequest(anthropicModel, contents, reqConfig), WireMessages)

NextResponse == GenerateContent({FALSE}) \/ Respond

\* A non-streaming call answered by any message of the provider.
SpecResponse == InitResponse /\ [][NextResponse]_vars

\* Values of ANTHROPIC_USE_VERTEX: unset, the spellings of true and false
\* of strconv.ParseBool, true in mixed case, other words, and values with
\* white space around and inside.
UseVertexValues ==
    {<<>>, <<"1">>, <<"0">>, <<"t">>, <<"T">>, <<"f">>,
     <<"t", "r", "u", "e">>, <<"T", "R", "U", "E">>, <<"T", "r", "u", "e">>,
     <<"t", "R", "u", "E">>, <<"f", "a", "l", "s", "e">>, <<"y", "e", "s">>,
     <<" ", " ", "t", "r", "u", "e", " ", " ">>, <<"\t", "1", "\n">>,
     <<"1", " ", "1">>, <<" ", "T", " ">>}

Environments ==
    {[ANTHROPIC_USE_VERTEX |-> v, GOOGLE_CLOUD_PROJECT |-> pr[1],
      GOOGLE_CLOUD_REGION |-> pr[2]] :
        v \in UseVertexValues,
        pr \in {<<"", "">>, <<"p", "r">>, <<"p", "">>, <<"", "r">>}}

\* Configs: none, an empty one, each variant named, an unknown variant,
\* and Vertex AI project and region given.
VariantConfigs ==
    {NilConfig, Config(0),
     [Config(0) EXCEPT !.Variant = VariantVertexAI],
     [Config(0) EXCEPT !.Variant = VariantAnthropicAPI],
     [Config(0) EXCEPT !.Variant = "OTHER"],
     [Config(0) EXCEPT !.VertexProjectID = "p", !.VertexRegion = "r"],
     [Config(0) EXCEPT !.Variant = VariantVertexAI, !.VertexProjectID = "p",
                       !.VertexRegion = "r"]}

\* Before NewModel: an environment, a Config and a request.
InitVariant ==
    /\ contents = <<Content(user, <<TextPart("a")>>)>>
    /\ pc = "new"
    /\ messages = <<>>
    /\ err = "nil"
    /\ stream = FALSE
    /\ events = <<>>
    /\ streamErr = "nil"
    /\ message = ZeroAnthropicMessage
    /\ yielded = <<>>
    /\ stopped = FALSE
    /\ calls = 0
    /\ source = "none"
    /\ env \in Environments
    /\ cfg \in VariantConfigs
    /\ anthropicModel = NilModel
    /\ reqConfig = NilGenerateConfig
    /\ params = ZeroParams

NextVariant == MakeModel \/ GenerateContent({FALSE}) \/ Generate

\* A model made in any environment and one request sent through it.
SpecVariant == InitVariant /\ [][NextVariant]_vars

\* Parts that convert and parts that do not: text, inline and file data
\* of a MIME type outside the supported ones, executable code, and a
\* function response that cannot be serialized.
FailParts ==
    {TextPart("a"), InlineDataPart(textPlain), FileDataPart(textPlain),
     ExecutableCodePart,
     [FunctionResponsePart("t1", "f") EXCEPT !.marshalFails = TRUE]}

NextFail == AddTurn(Turns({user, tool}, FailParts)) \/ Convert

\* Requests with failing parts and failing roles at any place, translated.
SpecFail == Init /\ [][NextFail]_vars

NextOnce ==
    \/ GenerateContent(BOOLEAN) \/ Generate
    \/ StartStream \/ StreamNext \/ StreamEnd \/ Reiterate

\* GenerateContent in either mode, on requests that convert and requests
\* that do not, the streaming sequence iterated up to MaxRuns times.
SpecOnce == InitStream /\ [][NextOnce]_vars

\* The answers of one text, thinking or redacted-thinking block.
ThinkingMessages ==
    {[ZeroAnthropicMessage EXCEPT !.Content = <<b>>, !.StopReason = "end_turn",
                                  !.InputTokens = Int64Of(10),
                                  !.OutputTokens = Int64Of(20)] :
        b \in {w \in WireBlocks : w.Type \in {"text", "thinking", "redacted_thinking"}}}

RespondThinking ==
    GeneratingFrom(convertRequest(anthropicModel, contents, reqConfig), ThinkingMessages)

\* The caller appends the content of the response, a turn of role model,
\* to the turns of the next request.
Continue ==
    /\ pc = "closed" /\ ~stream
    /\ calls < MaxRuns
    /\ Len(yielded) = 1 /\ yielded[1].err = "nil"
    /\ contents' = Append(contents, Content(model, yielded[1].resp.Parts))
    /\ pc' = "build"
    /\ UNCHANGED <<messages, err, stream, events, streamErr, message, yielded, stopped,
                   calls, source>>
    /\ UNCHANGED <<env, cfg, anthropicModel, reqConfig, params>>

NextRound == GenerateContent({FALSE}) \/ RespondThinking \/ Continue \/ Convert

\* An answer with thinking, handed back with the next request and
\* translated for the provider again.
SpecRound == InitResponse /\ [][NextRound]_vars

----------------------------------------------------------------------------
(* Properties of the streaming sequence.                                   *)

IsPartial(v) ==
    v.err = "nil" /\ ~v.resp.isNil /\ v.resp.Partial /\ ~v.resp.TurnComplete

IsFinal(v) ==
    v.err = "nil" /\ ~v.resp.isNil /\ v.resp.TurnComplete /\ ~v.resp.Partial

IsError(v) == v.err # "nil" /\ v.resp.isNil

IsYieldedDelta(ev) ==
    ev.type = "content_block_delta" /\ ev.delta \in {"text_delta", "thinking_delta"}

\* The texts of the parts with the given thought flag, concatenated.
RECURSIVE TextOf(_, _)
TextOf(parts, thought) ==
    IF Len(parts) = 0 THEN ""
    ELSE (IF parts[1].Thought = thought /\ ~parts[1].hasFunctionCall
          THEN parts[1].Text ELSE "")
         \o TextOf(Tail(parts), thought)

\* The texts of the deltas of the given kind, concatenated in event order.
RECURSIVE DeltaText(_, _)
DeltaText(evs, kind) ==
    IF Len(evs) = 0 THEN ""
    ELSE (IF evs[1].type = "content_block_delta" /\ evs[1].delta = kind
          THEN evs[1].text ELSE "")
         \o DeltaText(Tail(evs), kind)

\* The sequence ran to the end of a stream that ended without error.
Completed ==
    /\ stream /\ pc = "closed" /\ ~stopped /\ streamErr = "nil"
    /\ Len(yielded) > 0 /\ yielded[Len(yielded)].err = "nil"

\* C8: for a stream that ends without error, the sequence is one partial
\* response per text or thinking delta, in event order, holding that
\* delta's text alone and not flagged complete, nothing for any other
\* event, and then one final response flagged turn-complete whose text is
\* the text deltas concatenated in arrival order (and whose thought text is
\* the thinking deltas concatenated).
C8_StreamingCompletion ==
    Completed =>
        LET n == Len(yielded)
            deltas == SelectSeq(events, IsYieldedDelta)
            final == yielded[n].resp
        IN  /\ n = Len(deltas) + 1
            /\ \A k \in 1..(n - 1) :
                   /\ IsPartial(yielded[k])
                   /\ Len(yielded[k].resp.Parts) = 1
                   /\ yielded[k].resp.Parts[1].Text = deltas[k].text
                   /\ yielded[k].resp.Parts[1].Thought = (deltas[k].delta = "thinking_delta")
            /\ IsFinal(yielded[n])
            /\ TextOf(final.Parts, FALSE) = DeltaText(events, "text_delta")
            /\ TextOf(final.Parts, TRUE) = DeltaText(events, "thinking_delta")

\* The stream He, llo in one text block, run to its message_stop: partial
\* He, partial llo, final Hello.
C8_Witness ==
    /\ Completed
    /\ events = <<MessageStart, ContentBlockStart("text"),
                  ContentBlockDelta("text_delta", "He"),
                  ContentBlockDelta("text_delta", "llo"),
                  ContentBlockStop, MessageDelta("end_turn"), MessageStop>>
    /\ Len(yielded) = 3
    /\ yielded[1].resp.Parts = <<TextPart("He")>>
    /\ yielded[2].resp.Parts = <<TextPart("llo")>>
    /\ yielded[3].resp.Parts = <<TextPart("Hello")>>
    /\ yielded[3].resp.TurnComplete

\* C9: the values of a run are partial responses followed by at most one
\* terminal value, an error without response or a response flagged
\* turn-complete, which is the last value and closes the accumulator; and
\* no value is produced once the accumulator is closed.
C9_SingleTerminal ==
    /\ [](stream =>
            \A k \in 1..Len(yielded) :
                /\ IsPartial(yielded[k]) \/ IsFinal(yielded[k]) \/ IsError(yielded[k])
                /\ ~(IsFinal(yielded[k]) /\ IsError(yielded[k]))
                /\ (IsFinal(yielded[k]) \/ IsError(yielded[k]))
                       => (k = Len(yielded) /\ pc = "closed")
                /\ k < Len(yielded) => IsPartial(yielded[k]))
    /\ [][(stream /\ pc = "closed") => (yielded' = yielded /\ pc' = "closed")]_vars

\* A run closed by the final response after two partial responses, and
\* nothing left to do.
C9_Witness ==
    /\ stream /\ pc = "closed"
    /\ Len(yielded) = 3
    /\ IsPartial(yielded[1]) /\ IsPartial(yielded[2]) /\ IsFinal(yielded[3])

\* C10: once the consumer has declined a value, the run is closed, the
\* declined value is the last one and is a partial response, no final
\* response was or will be yielded, and no further event is read.
C10_DeclineStops ==
    /\ [](stopped =>
            /\ pc = "closed"
            /\ Len(yielded) > 0
            /\ \A k \in 1..Len(yielded) : IsPartial(yielded[k]))
    /\ [][stopped => (yielded' = yielded /\ events' = events /\ stopped')]_vars

\* The consumer declined the second value, a thinking delta, while the
\* provider had more events to send.
C10_Witness ==
    /\ stopped
    /\ Len(yielded) = 2
    /\ yielded[2].resp.Parts[1].Thought
    /\ Len(events) < MaxEvents
    /\ NextEvents(events) # {}

----------------------------------------------------------------------------
(* Errors of the streaming sequence.                                       *)

AccumulateError == "failed to accumulate message"
StreamError == "stream error"

\* The last value yielded is the error of a failed Accumulate or of the
\* event source.
EndedInError ==
    /\ stream /\ Len(yielded) > 0
    /\ yielded[Len(yielded)].err \in {AccumulateError, StreamError}

\* The events folded into the message with success: all but the last when
\* Accumulate failed on it.
Processed ==
    IF Len(yielded) > 0 /\ yielded[Len(yielded)].err = AccumulateError
    THEN SubSeq(events, 1, Len(events) - 1)
    ELSE events

\* C11: an event that Accumulate rejects, and an error of the event source
\* after its last event, are yielded as an error without response, which
\* is the last value; the run is then closed, no value follows, and the
\* values before the error are the partial responses of the text and
\* thinking deltas processed before it, in order, with no partial response
\* for the rejected event and no final response.
C11_ErrorIsTerminal ==
    /\ [](EndedInError =>
            LET n == Len(yielded)
                deltas == SelectSeq(Processed, IsYieldedDelta)
            IN  /\ pc = "closed"
                /\ IsError(yielded[n])
                /\ n = Len(deltas) + 1
                /\ \A k \in 1..(n - 1) :
                       /\ IsPartial(yielded[k])
                       /\ yielded[k].resp.Parts[1].Text = deltas[k].text
                       /\ yielded[k].resp.Parts[1].Thought
                              = (deltas[k].delta = "thinking_delta"))
    /\ [][EndedInError => (yielded' = yielded /\ events' = events)]_vars
    /\ [][(pc = "open" /\ events' # events
              /\ Accumulate(message, events'[Len(events')]).err # "nil")
           => (yielded' = Append(yielded, Yield(NilResponse, AccumulateError))
               /\ pc' = "closed")]_vars
    /\ [][(pc = "open" /\ streamErr' # "nil")
           => (yielded' = Append(yielded, Yield(NilResponse, StreamError))
               /\ pc' = "closed")]_vars

\* The event source failed after the deltas He and hm had been yielded as
\* partial responses: the error is the third and last value.
C11_Witness ==
    /\ EndedInError
    /\ streamErr # "nil"
    /\ Len(yielded) = 3
    /\ yielded[1].resp.Parts = <<TextPart("He")>>
    /\ yielded[2].resp.Parts[1].Thought
    /\ yielded[3] = Yield(NilResponse, StreamError)

----------------------------------------------------------------------------
(* Iterating the streaming sequence again.                                 *)

\* C12 as stated: once a run of the streaming sequence has ended, at its
\* terminal value or at the consumer's decline, iterating the sequence
\* again starts no exchange with the provider client and hands the
\* consumer no value.
C12_SinglePass ==
    [][(stream /\ pc = "closed") => (calls' = calls /\ yielded' = yielded)]_vars

----------------------------------------------------------------------------
(* The event source of a cancelled run.                                    *)

\* C13 as stated: when the consumer has declined a value in the middle of
\* a stream and the sequence has ended, the event source of the run is not
\* left open.
C13_DeclineReleasesSource ==
    (stream /\ stopped /\ pc = "closed") => source # "open"

----------------------------------------------------------------------------
(* The declared role of a turn without function parts.                     *)

SupportedRoles == {user, model, assistant}

\* C14 as stated: with a non-nil turn that holds no FunctionCall and no
\* FunctionResponse part, whatever parts it holds and also when it holds
\* none, and whose declared role in lower case is not user, model or
\* assistant, ContentsToMessages fails with the unsupported-role error;
\* and a turn of a supported role that comes out as a message has role
\* user for user and assistant for model and assistant, in any letter case.
C14_UnsupportedRoleFails ==
    pc = "converted" =>
        /\ (\E i \in 1..Len(contents) :
                /\ ~contents[i].isNil
                /\ ~HasFunctionCall(contents[i]) /\ ~HasFunctionResponse(contents[i])
                /\ ToLower(contents[i].Role) \notin SupportedRoles)
              => err = "unsupported role"
        /\ \A i \in 1..Len(contents) :
               LET r == contentToMessage(contents[i]) IN
               (~contents[i].isNil /\ ~r.isNil
                  /\ ~HasFunctionCall(contents[i]) /\ ~HasFunctionResponse(contents[i]))
               => r.val.Role = IF ToLower(contents[i].Role) = user
                                THEN "user" ELSE "assistant"

----------------------------------------------------------------------------
(* Media parts.                                                            *)

ImageTypes == {imageJpeg, imagePng, imageGif, imageWebp}

UnsupportedMedia ==
    {"unsupported image media type", "unsupported MIME type for inline data",
     "unsupported MIME type for file data"}

\* The kind of block a MIME type is to give: image for the four image
\* types, document for PDF, none for every other type.
KindOf(mimeType) ==
    IF mimeType \in ImageTypes THEN "image"
    ELSE IF mimeType = applicationPdf THEN "document"
    ELSE "none"

IsInline(p) == ~p.isNil /\ p.Text = "" /\ p.hasInlineData

IsFile(p) == ~p.isNil /\ p.Text = "" /\ ~p.hasInlineData /\ p.hasFileData

\* The turn of media parts has been translated.
MediaDone == pc = "converted" /\ Len(contents) = 1 /\ ~contents[1].isNil

\* C15: with the MIME type compared in lower case, as the code and MIME
\* types do, an inline-binary part
\* gives a base64 image block of that media type exactly for image/jpeg,
\* image/png, image/gif and image/webp, a base64 document block exactly
\* for application/pdf, and the unsupported-media error for every other
\* type, other image/ subtypes included; the block is the one the wire
\* message holds at the part's place, and one unsupported inline part makes
\* the translation fail.
C15_InlineMedia ==
    MediaDone =>
        \A k \in 1..Len(contents[1].Parts) :
            LET p == contents[1].Parts[k]
                b == PartToContentBlock(p)
                kind == KindOf(ToLower(p.MIMEType))
            IN  IsInline(p) =>
                  /\ (kind = "none") <=> (b.err \in UnsupportedMedia)
                  /\ (kind # "none") =>
                         /\ b.err = "nil" /\ ~b.isNil
                         /\ b.val.type = kind /\ b.val.source = "base64"
                         /\ (kind = "image" => b.val.mediaType = ToLower(p.MIMEType))
                  /\ (kind = "none") => err \in UnsupportedMedia
                  /\ err = "nil" => messages[1].Content[k] = b.val

\* A turn of an inline PNG written in upper case and an inline PDF,
\* translated to an image block and a document block.
C15_Witness ==
    /\ MediaDone /\ err = "nil"
    /\ contents[1].Parts = <<InlineDataPart(upperImagePng), InlineDataPart(applicationPdf)>>
    /\ Len(messages) = 1
    /\ messages[1].Content[1].type = "image"
    /\ messages[1].Content[1].mediaType = imagePng
    /\ messages[1].Content[2].type = "document"

\* C16 as stated: with the MIME type compared in lower case, a
\* file-reference part gives a URL image block only for image/jpeg,
\* image/png, image/gif and image/webp, a URL document block for
\* application/pdf and the unsupported-media error for every other type,
\* so that a MIME type is accepted in a file reference exactly when it is
\* accepted in inline data.
C16_FileMatchesInline ==
    MediaDone =>
        \A k \in 1..Len(contents[1].Parts) :
            LET p == contents[1].Parts[k]
                b == PartToContentBlock(p)
                kind == KindOf(ToLower(p.MIMEType))
            IN  IsFile(p) =>
                  /\ (kind = "none") <=> (b.err \in UnsupportedMedia)
                  /\ (kind # "none") =>
                         (b.err = "nil" /\ ~b.isNil
                            /\ b.val.type = kind /\ b.val.source = "url")
                  /\ (b.err = "nil") <=>
                         (PartToContentBlock(InlineDataPart(p.MIMEType)).err = "nil")
                  /\ (kind = "none") => err \in UnsupportedMedia

----------------------------------------------------------------------------
(* Function parts.                                                         *)

IsCall(p) ==
    /\ ~p.isNil /\ p.Text = "" /\ ~p.hasInlineData /\ ~p.hasFileData
    /\ ~p.hasFunctionResponse /\ p.hasFunctionCall

IsResponse(p) ==
    /\ ~p.isNil /\ p.Text = "" /\ ~p.hasInlineData /\ ~p.hasFileData
    /\ p.hasFunctionResponse

\* C17 as stated: a FunctionCall part gives a tool-use block with the
\* call's id and name whose input is the call's argument map, and the
\* empty map when the argument map is nil; it is the block the wire message
\* holds at the part's place.
C17_NilArgsDefaulted ==
    MediaDone =>
        \A k \in 1..Len(contents[1].Parts) :
            LET p == contents[1].Parts[k]
                b == PartToContentBlock(p)
            IN  IsCall(p) =>
                  /\ b.err = "nil" /\ ~b.isNil
                  /\ b.val.type = "tool_use"
                  /\ b.val.id = p.ID /\ b.val.name = p.Name
                  /\ b.val.input = IF p.Args = "nil" THEN "{}" ELSE p.Args
                  /\ err = "nil" => messages[1].Content[k] = b.val

\* C18: a FunctionResponse part whose payload marshals gives a tool-result
\* block whose tool-use reference is the response's id when the id is not
\* empty and the response's name when it is; it is the block the wire
\* message holds at the part's place.
C18_ResultReference ==
    MediaDone =>
        \A k \in 1..Len(contents[1].Parts) :
            LET p == contents[1].Parts[k]
                b == PartToContentBlock(p)
            IN  (IsResponse(p) /\ ~p.marshalFails) =>
                  /\ b.err = "nil" /\ ~b.isNil
                  /\ b.val.type = "tool_result"
                  /\ b.val.id = IF p.ID # "" THEN p.ID ELSE p.Name
                  /\ err = "nil" => messages[1].Content[k] = b.val

\* A translated turn of a response with the id t1 and a response without
\* id of the function g: the references are t1 and g.
C18_Witness ==
    /\ MediaDone /\ err = "nil"
    /\ contents[1].Parts = <<FunctionResponsePart("t1", "f"), FunctionResponsePart("", "g")>>
    /\ Len(messages) = 1
    /\ messages[1].Content[1].id = "t1"
    /\ messages[1].Content[2].id = "g"

----------------------------------------------------------------------------
(* The max-token bound of a wire request.                                  *)

\* C19: the params of every request handed to the provider client carry
\* MaxTokens, which is the request's MaxOutputTokens when the request has a
\* config that sets it above zero, and else the model's default: the
\* Config's DefaultMaxTokens when there is a Config and it is not zero,
\* and 4096 when it is zero or there is no Config.
C19_MaxTokens ==
    calls > 0 =>
        params.MaxTokens =
            IF ~reqConfig.isNil /\ reqConfig.MaxOutputTokens > 0
            THEN reqConfig.MaxOutputTokens
            ELSE IF cfg.isNil \/ cfg.DefaultMaxTokens = 0 THEN 4096
            ELSE cfg.DefaultMaxTokens

\* A request whose config leaves MaxOutputTokens unset, sent through a
\* model whose Config leaves DefaultMaxTokens zero: the bound is 4096.
C19_Witness ==
    /\ calls > 0
    /\ cfg = Config(0)
    /\ reqConfig = GenerateContentConfig(0)
    /\ params.MaxTokens = 4096

----------------------------------------------------------------------------
(* Tool schemas.                                                           *)

\* The declaration of the request and the wire tool made of it.
TheDeclaration == reqConfig.Tools[1].FunctionDeclarations[1]

ToolBuilt ==
    /\ calls > 0 /\ ~reqConfig.isNil /\ Len(reqConfig.Tools) = 1
    /\ Len(params.Tools) = 1

\* The names a required list holds.
Names(list) == {list.val[i] : i \in 1..Len(list.val)}

\* C20: for a declaration with Parameters, the properties of the wire tool
\* are those of Parameters that have a schema, each with its type in lower
\* case (none when Parameters has no properties), and its required list is
\* that of Parameters (none when that is empty): no property and no
\* required name of ParametersJsonSchema is in the tool.
C20_ParametersExclusive ==
    (ToolBuilt /\ ~TheDeclaration.Parameters.isNil) =>
        LET P == TheDeclaration.Parameters
            is == params.Tools[1].InputSchema
            own == IF P.Properties.isNil THEN {}
                   ELSE {n \in DOMAIN P.Properties.m : ~P.Properties.m[n].isNil}
        IN  /\ ~is.Properties.isNil
            /\ DOMAIN is.Properties.m = own
            /\ \A n \in own :
                   is.Properties.m[n] = Map("type" :> ToLower(P.Properties.m[n].Type))
            /\ is.Required = IF Len(P.Required) > 0 THEN List(P.Required) ELSE NilList
            /\ "b" \notin DOMAIN is.Properties.m
            /\ "b" \notin Names(is.Required)

\* A declaration whose Parameters have neither properties nor required and
\* whose raw key mapping has the property b and requires it: the tool has
\* no property and no required list.
C20_Witness ==
    /\ ToolBuilt
    /\ TheDeclaration.Parameters = Parameters(NilMap, <<>>)
    /\ TheDeclaration.ParametersJsonSchema =
           JsonMap([isMap |-> TRUE, val |-> Map("b" :> Map("type" :> lowerString))],
                   RequiredStrings(List(<<"b">>)))
    /\ params.Tools[1].InputSchema = [Properties |-> EmptyMap, Required |-> NilList]

\* The names of the non-nil declarations of a tool, and of the non-nil
\* tools of a list, in order.
RECURSIVE DeclaredNames(_)
DeclaredNames(fds) ==
    IF Len(fds) = 0 THEN <<>>
    ELSE (IF fds[1].isNil THEN <<>> ELSE <<fds[1].Name>>) \o DeclaredNames(Tail(fds))

RECURSIVE ToolNames(_)
ToolNames(tools) ==
    IF Len(tools) = 0 THEN <<>>
    ELSE (IF tools[1].isNil THEN <<>> ELSE DeclaredNames(tools[1].FunctionDeclarations))
         \o ToolNames(Tail(tools))

\* The request was converted, with the tools of its config.
ToolsBuilt == calls > 0 /\ ~reqConfig.isNil /\ Len(reqConfig.Tools) > 0

\* C21: every wire tool has a non-nil properties mapping, whatever schema
\* its declaration carries, and the wire tools are those of the non-nil
\* declarations of the non-nil tools, one each, in declaration order.
C21_ObjectRoot ==
    ToolsBuilt =>
        /\ \A i \in 1..Len(params.Tools) : ~params.Tools[i].InputSchema.Properties.isNil
        /\ [i \in 1..Len(params.Tools) |-> params.Tools[i].Name] = ToolNames(reqConfig.Tools)

\* C21, the part on the number and order of the tools alone.
C21_OnePerDeclaration ==
    ToolsBuilt =>
        [i \in 1..Len(params.Tools) |-> params.Tools[i].Name] = ToolNames(reqConfig.Tools)

\* The declaration carries only a raw schema, a key mapping.
RawMapBuilt ==
    /\ ToolBuilt
    /\ TheDeclaration.Parameters.isNil
    /\ TheDeclaration.ParametersJsonSchema.kind = "map"

\* The same names as a []any.
AnysOf(q) == [i \in 1..Len(q) |-> AnyString(q[i])]

\* A []any of strings only.
AllStrings(q) == \A i \in 1..Len(q) : q[i].isString

\* C22 as stated: a []string required list gives the wire list its []any
\* form gives, a []any of strings the one its []string form gives, and no
\* required key gives none.
C22_Original ==
    RawMapBuilt =>
        LET r == TheDeclaration.ParametersJsonSchema.required
            out == params.Tools[1].InputSchema.Required
        IN  /\ r.kind = "nil" => out = NilList
            /\ r.kind = "strings" =>
                   out = extractRequiredFields(RequiredAnys(AnysOf(r.strs.val)))
            /\ (r.kind = "anys" /\ AllStrings(r.anys)) =>
                   out = extractRequiredFields(RequiredStrings(List(stringsOf(r.anys))))

\* C22: a non-nil []string required list and the []any of the same names
\* give the same wire list, the names in their order; no required key, and
\* a nil []string, give none.
C22_RequiredNormalised ==
    RawMapBuilt =>
        LET r == TheDeclaration.ParametersJsonSchema.required
            out == params.Tools[1].InputSchema.Required
        IN  /\ r.kind = "nil" => out = NilList
            /\ (r.kind = "strings" /\ r.strs.isNil) => out = NilList
            /\ (r.kind = "strings" /\ ~r.strs.isNil) =>
                   /\ out = List(r.strs.val)
                   /\ out = extractRequiredFields(RequiredAnys(AnysOf(r.strs.val)))
            /\ (r.kind = "anys" /\ AllStrings(r.anys)) =>
                   /\ out = List([i \in 1..Len(r.anys) |-> r.anys[i].s])
                   /\ out = extractRequiredFields(RequiredStrings(List(stringsOf(r.anys))))

\* A []any of two names became the wire list of the two, in their order.
C22_Witness ==
    /\ RawMapBuilt
    /\ TheDeclaration.ParametersJsonSchema.required =
           RequiredAnys(<<AnyString("b"), AnyString("a")>>)
    /\ params.Tools[1].InputSchema.Required = List(<<"b", "a">>)

----------------------------------------------------------------------------
(* Received messages.                                                      *)

\* The provider answered with the message in message, and its response
\* was yielded.
Answered ==
    /\ ~stream /\ pc = "closed" /\ Len(yielded) = 1
    /\ yielded[1].err = "nil" /\ ~yielded[1].resp.isNil

\* An int32 as the int64 of the same value.
SignExtend(x) ==
    IF x[2] >= 32768 THEN <<x[1], x[2], 65535, 65535>> ELSE <<x[1], x[2], 0, 0>>

\* The sum of x and y is not an int64.
Overflows64(x, y) ==
    /\ (x[4] >= 32768) = (y[4] >= 32768)
    /\ (Add64(x, y)[4] >= 32768) # (x[4] >= 32768)

\* C23: the prompt count is the input count, the candidates count the
\* output count and the total their sum, as numbers, for every pair of
\* 64-bit counts.
C23_UsageArithmetic ==
    Answered =>
        LET in == message.InputTokens
            out == message.OutputTokens
            r == yielded[1].resp
        IN  /\ SignExtend(r.PromptTokenCount) = in
            /\ SignExtend(r.CandidatesTokenCount) = out
            /\ ~Overflows64(in, out)
            /\ SignExtend(r.TotalTokenCount) = Add64(in, out)

\* C23 for the counts whose sum is an int32 and that are int32 themselves.
C23_WithinInt32 ==
    Answered =>
        LET in == message.InputTokens
            out == message.OutputTokens
            sum == Add64(in, out)
            r == yielded[1].resp
            fits(x) == SignExtend(Int32(x)) = x
        IN  (fits(in) /\ fits(out) /\ fits(sum) /\ ~Overflows64(in, out)) =>
                /\ SignExtend(r.PromptTokenCount) = in
                /\ SignExtend(r.CandidatesTokenCount) = out
                /\ SignExtend(r.TotalTokenCount) = sum

\* C24: the finish reason is Stop for end_turn, stop_sequence and tool_use,
\* MaxTokens for max_tokens, and Unspecified for every other stop reason,
\* the empty one included.
C24_FinishReasonTable ==
    Answered =>
        LET sr == message.StopReason
            fr == yielded[1].resp.FinishReason
        IN  /\ sr \in {"end_turn", "stop_sequence", "tool_use"} => fr = "STOP"
            /\ sr = "max_tokens" => fr = "MAX_TOKENS"
            /\ sr \notin {"end_turn", "stop_sequence", "tool_use", "max_tokens"} =>
                   fr = "FINISH_REASON_UNSPECIFIED"

\* A message without stop reason gave a response of unspecified finish
\* reason.
C24_Witness ==
    /\ Answered
    /\ message.StopReason = ""
    /\ yielded[1].resp.FinishReason = "FINISH_REASON_UNSPECIFIED"

----------------------------------------------------------------------------
(* The backend variant.                                                    *)

\* NewModel made a model and took its variant from the environment.
VariantFromEnv ==
    /\ pc # "new" /\ ~anthropicModel.isNil
    /\ cfg.isNil \/ cfg.Variant = ""

\* C25: the variant taken from the environment is Vertex AI exactly when
\* the value of ANTHROPIC_USE_VERTEX, without the white space around it, is
\* "1" or is "true" in any case, and the direct API for every other value.
C25_VariantByEnv ==
    VariantFromEnv =>
        LET value == TrimSpace(env.ANTHROPIC_USE_VERTEX)
            isTrue == value = <<"1">> \/ ToLower(value) = <<"t", "r", "u", "e">>
        IN  anthropicModel.variant =
                IF isTrue THEN VariantVertexAI ELSE VariantAnthropicAPI

\* C25 for the values the tests set: "", "false", "true", "1", "0", "TRUE"
\* and "  true  ".
C25_TestedValues ==
    VariantFromEnv =>
        LET raw == env.ANTHROPIC_USE_VERTEX
            value == TrimSpace(raw)
        IN  /\ value \in {<<"1">>, <<"t", "r", "u", "e">>, <<"T", "R", "U", "E">>} =>
                   anthropicModel.variant = VariantVertexAI
            /\ value \in {<<>>, <<"0">>, <<"f", "a", "l", "s", "e">>, <<"y", "e", "s">>,
                          <<"1", " ", "1">>} =>
                   anthropicModel.variant = VariantAnthropicAPI

----------------------------------------------------------------------------
(* Turns without blocks, and failing turns.                                *)

\* A part that carries nothing: nil, or no text and no data of any kind.
CarriesNothing(part) ==
    \/ part.isNil
    \/ /\ part.Text = ""
       /\ ~part.hasInlineData /\ ~part.hasFileData
       /\ ~part.hasFunctionResponse /\ ~part.hasFunctionCall
       /\ ~part.hasExecutableCode /\ ~part.hasCodeExecutionResult

\* A turn that has no block to give: nil, or all its parts carry nothing.
Blockless(c) == c.isNil \/ \A i \in 1..Len(c.Parts) : CarriesNothing(c.Parts[i])

\* cs without its turns that have no block to give.
WithoutBlockless(cs) == LET keep(c) == ~Blockless(c) IN SelectSeq(cs, keep)

\* C26: every message of the returned list has at least one block, and the
\* list is the one the request gives without its turns that have no block
\* to give.
C26_NoEmptyMessage ==
    Converted =>
        /\ \A i \in 1..Len(messages) : Len(messages[i].Content) > 0
        /\ ContentsToMessages(WithoutBlockless(contents)) =
               [err |-> "nil", messages |-> messages]

\* A user turn, a model turn of one empty part, and a user turn gave one
\* user message of two blocks.
C26_Witness ==
    /\ Converted
    /\ contents = <<Content(user, <<TextPart("a")>>), Content(model, <<ZeroPart>>),
                    Content(user, <<TextPart("a")>>)>>
    /\ Len(messages) = 1
    /\ messages[1].Role = "user"
    /\ Len(messages[1].Content) = 2

\* A part the translator has no block for: data of an unsupported MIME
\* type, executable code or its result, a function response that cannot
\* be serialized.
Unconvertible(part) ==
    /\ ~part.isNil /\ part.Text = ""
    /\ \/ part.hasInlineData /\ KindOf(ToLower(part.MIMEType)) = "none"
       \/ /\ ~part.hasInlineData /\ part.hasFileData
          /\ KindOf(ToLower(part.MIMEType)) = "none"
          /\ ~HasPrefix(ToLower(part.MIMEType), imagePrefix)
       \/ /\ ~part.hasInlineData /\ ~part.hasFileData
          /\ part.hasFunctionResponse /\ part.marshalFails
       \/ /\ ~part.hasInlineData /\ ~part.hasFileData
          /\ ~part.hasFunctionResponse /\ ~part.hasFunctionCall
          /\ part.hasExecutableCode \/ part.hasCodeExecutionResult

\* A turn that fails: it has a part, and either its role is unsupported and
\* no function part sets the role, or one of its parts is unconvertible.
FailingTurn(c) ==
    /\ ~c.isNil /\ Len(c.Parts) > 0
    /\ \/ /\ ToLower(c.Role) \notin SupportedRoles
          /\ ~HasFunctionResponse(c) /\ ~HasFunctionCall(c)
       \/ \E i \in 1..Len(c.Parts) : Unconvertible(c.Parts[i])

\* C27: when a turn of the request fails, at whatever place, the
\* translation returns an error and no message; and an error never comes
\* with messages.
C27_AllOrNothing ==
    pc = "converted" =>
        /\ (\E i \in 1..Len(contents) : FailingTurn(contents[i])) =>
               (err # "nil" /\ messages = <<>>)
        /\ err # "nil" => messages = <<>>
        /\ err # "nil" => \E i \in 1..Len(contents) : FailingTurn(contents[i])

\* Two turns that convert, then a turn with executable code: an error and
\* no message.
C27_Witness ==
    /\ pc = "converted"
    /\ contents = <<Content(user, <<TextPart("a")>>), Content(user, <<TextPart("a")>>),
                    Content(user, <<TextPart("a"), ExecutableCodePart>>)>>
    /\ err # "nil"
    /\ messages = <<>>

\* The blocks of the received message that have a part: those of a type
\* the translator knows.
KnownBlocks ==
    LET known(b) == b.Type \in {"text", "thinking", "redacted_thinking", "tool_use",
                                "server_tool_use"}
    IN  SelectSeq(message.Content, known)

IsToolUse(b) == b.Type \in {"tool_use", "server_tool_use"}

\* C28: the response has one part per block of a known type, in block
\* order, none is dropped for a tool-use block beside it, and the part of a
\* tool-use or server-tool-use block is a FunctionCall of the block's id
\* and name, whose arguments are those of the input when it is a JSON
\* object and have no entry when it is not.
C28_ToolUseNeverFails ==
    Answered =>
        LET parts == yielded[1].resp.Parts
        IN  /\ yielded[1].resp.ErrorCode = ""
            /\ Len(parts) = Len(KnownBlocks)
            /\ \A i \in 1..Len(KnownBlocks) :
                   LET b == KnownBlocks[i] IN
                   /\ IsToolUse(b) =>
                          /\ parts[i].hasFunctionCall
                          /\ parts[i].ID = b.ID /\ parts[i].Name = b.Name
                          /\ IF b.Input \in {"{}", "{\"k\":1}"}
                             THEN parts[i].Args = b.Input
                             ELSE parts[i].Args \in {"{}", "nil"}
                   /\ b.Type = "text" => (parts[i].Text = b.Text /\ ~parts[i].hasFunctionCall)

\* A tool-use block whose input is a JSON array, and a text block after
\* it: a FunctionCall without arguments, and the text.
C28_Witness ==
    /\ Answered
    /\ Len(message.Content) = 2
    /\ message.Content[1].Type = "tool_use" /\ message.Content[1].Input = "[1]"
    /\ message.Content[2].Type = "text"
    /\ Len(yielded[1].resp.Parts) = 2
    /\ yielded[1].resp.Parts[1].hasFunctionCall
    /\ yielded[1].resp.Parts[1].Args = "{}"
    /\ yielded[1].resp.Parts[2].Text = "Hi"

----------------------------------------------------------------------------
(* Calls of the provider client.                                           *)

\* An iteration of the sequence starts: the first one, or one more of the
\* streaming sequence.
IterationStarts == pc = "called" \/ (pc = "closed" /\ stream)

\* C29: the client is called only when an iteration starts, once, and
\* only when the request converted; an iteration whose request does not
\* convert is over at once with one value yielded, an error without
\* response; and the non-streaming sequence yields one pair, with or
\* without a call.
C29_OneCallPerIteration ==
    [][/\ calls' \in {calls, calls + 1}
       /\ calls' = calls + 1 => (IterationStarts /\ err' = "nil")
       /\ (IterationStarts /\ err' # "nil") =>
              /\ calls' = calls
              /\ pc' = "closed"
              /\ Len(yielded') = Len(yielded) + 1
              /\ yielded'[Len(yielded')].resp.isNil
              /\ yielded'[Len(yielded')].err # "nil"
       /\ (pc = "called" /\ ~stream) =>
              /\ pc' = "closed"
              /\ Len(yielded') = 1
              /\ yielded'[1].resp.isNil # (yielded'[1].err = "nil")
      ]_vars

\* A streaming sequence whose request did not convert, iterated once: no
\* call, one error.
C29_Witness ==
    /\ stream /\ pc = "closed"
    /\ err # "nil"
    /\ calls = 0
    /\ Len(yielded) = 1
    /\ yielded[1].resp.isNil /\ yielded[1].err = "failed to convert request"

----------------------------------------------------------------------------
(* Thinking, there and back.                                               *)

\* The standard base64 texts of at least one byte: groups of four
\* characters of the alphabet, the last group padded with one or two
\* padding characters or not at all.
ValidBase64(sig) ==
    /\ Len(sig) > 0 /\ Len(sig) % 4 = 0
    /\ \A i \in 1..(Len(sig) - 2) : sig[i] \in 0..63
    /\ sig[Len(sig)] \in 0..64
    /\ sig[Len(sig) - 1] \in 0..64
    /\ sig[Len(sig) - 1] = 64 => sig[Len(sig)] = 64

\* The first answer, of one block, came back as the second turn of the
\* request and the request was translated.
RoundTrip ==
    /\ pc = "converted" /\ err = "nil" /\ calls = 1
    /\ Len(contents) = 2 /\ Len(message.Content) = 1

\* C30 as stated: a thinking block with text and a signature that is
\* valid base64 comes back as a thinking block of the same text and the
\* same signature; a redacted-thinking block, and a thinking block with
\* text whose signature is empty or is not valid base64, come back as a
\* text block.
C30_ThinkingRoundTrip ==
    RoundTrip =>
        LET b == message.Content[1] IN
        /\ (b.Type = "thinking" /\ b.Thinking # "" /\ ValidBase64(b.Signature)) =>
               /\ Len(messages) = 2
               /\ messages[2].Role = "assistant"
               /\ messages[2].Content =
                      <<[ZeroBlock EXCEPT !.type = "thinking", !.text = b.Thinking,
                                          !.signature = b.Signature]>>
        /\ (b.Type = "thinking" /\ b.Thinking # "" /\ ~ValidBase64(b.Signature)) =>
               /\ Len(messages) = 2
               /\ messages[2].Content = <<NewTextBlock(b.Thinking)>>
        /\ b.Type = "redacted_thinking" =>
               /\ Len(messages) = 2
               /\ messages[2].Content = <<NewTextBlock("[thinking redacted]")>>

\* C30 for the signatures the encoder writes, the empty one, and those
\* whose first group does not decode.
C30_CanonicalRoundTrip ==
    RoundTrip =>
        LET b == message.Content[1]
            bytes == Base64Decode(b.Signature)
        IN
        /\ (b.Type = "thinking" /\ b.Thinking # "" /\ Len(bytes) > 0
               /\ Base64Encode(bytes) = b.Signature) =>
               /\ Len(messages) = 2
               /\ messages[2].Content =
                      <<[ZeroBlock EXCEPT !.type = "thinking", !.text = b.Thinking,
                                          !.signature = b.Signature]>>
        /\ (b.Type = "thinking" /\ b.Thinking # "" /\ Len(bytes) = 0) =>
               /\ Len(messages) = 2
               /\ messages[2].Content = <<NewTextBlock(b.Thinking)>>
        /\ b.Type = "redacted_thinking" =>
               /\ Len(messages) = 2
               /\ messages[2].Content = <<NewTextBlock("[thinking redacted]")>>

====
